---------------------------- MODULE Spec2Model ----------------------------
(***************************************************************************)
(* Shader-object specialization and pipeline caching of slang-rhi          *)
(* (rhi-shared.h as bundled in src/src/wgpu/wgpu-device.cpp).              *)
(*                                                                         *)
(* Part 1: ComponentKey / PipelineKey / ShaderCache.                       *)
(* Part 2: ShaderObjectBaseImpl (state machine, setObject, finalize,       *)
(*         specialization-argument collection).                            *)
(***************************************************************************)
EXTENDS Integers, Sequences, FiniteSets, TLC

(***************************************************************************)
(* Bounds of the model.                                                    *)
(***************************************************************************)
\* most entries the component-identity table is filled with before free()
MaxEntries == 3
\* most free() calls in one run
MaxFrees == 2
\* most program compilations, and most pipeline creations, in one run
MaxCreated == 3
\* width of the modelled hash values (size_t reduced to a small modulus)
HashMod == 5

\* const ShaderComponentID kInvalidComponentID = 0xFFFFFFFF (kept symbolic)
kInvalidComponentID == -1

\* a null pointer / empty RefPtr (objects and pipelines are numbered from 1)
NULL == 0

Min(S) == CHOOSE x \in S : \A y \in S : x <= y

\* the least element of a set of indices, 0 when there is none
First(S) == IF S = {} THEN 0 ELSE Min(S)

\* the element of a one-element set: The({e(x) : x \in {v}}) is e with x
\* standing for the value v, computed once
The(S) == CHOOSE x \in S : TRUE

(***************************************************************************)
(* Hashing.  std::hash and hash_combine are library code; they are         *)
(* modelled as deterministic functions with a small range so that distinct *)
(* keys do collide and the equality operators decide.                      *)
(***************************************************************************)
TypeNames == <<"A", "B", "__Dynamic", "IFoo", "Root", "Mid", "Buf", "Big", "Top",
               "Pair">>

\* std::hash<std::string_view>()(typeName)
StringHash(name) ==
    (CHOOSE i \in 1..Len(TypeNames) : TypeNames[i] = name) % HashMod

\* std::hash<void*>()(pipeline)
PointerHash(p) == p % HashMod

\* hash_combine(hash, arg)
hash_combine(seed, v) == (seed * 3 + v + 1) % HashMod

RECURSIVE CombineAll(_, _)
\* for (auto& arg : specializationArgs) hash_combine(hash, arg);
CombineAll(seed, args) ==
    IF args = <<>> THEN seed
    ELSE CombineAll(hash_combine(seed, Head(args)), Tail(args))

\* ComponentKey with updateHash() applied
ComponentKey_updateHash(typeName, specializationArgs) ==
    [typeName |-> typeName, specializationArgs |-> specializationArgs,
     hash |-> CombineAll(StringHash(typeName), specializationArgs)]

\* A mutated ComponentKey::operator== that compares the argument lists as
\* sets (ignores order and multiplicity).
ComponentKey_eq_Unordered(a, b) ==
    /\ a.typeName = b.typeName
    /\ {a.specializationArgs[i] : i \in 1..Len(a.specializationArgs)}
         = {b.specializationArgs[i] : i \in 1..Len(b.specializationArgs)}

\* ComponentKey::operator==
ComponentKey_eq(a, b) ==
    IF a.typeName # b.typeName THEN FALSE
    ELSE IF Len(a.specializationArgs) # Len(b.specializationArgs) THEN FALSE
    ELSE \A i \in 1..Len(b.specializationArgs) :
            a.specializationArgs[i] = b.specializationArgs[i]

\* PipelineKey with updateHash() applied
PipelineKey_updateHash(pipeline, specializationArgs) ==
    [pipeline |-> pipeline, specializationArgs |-> specializationArgs,
     hash |-> CombineAll(PointerHash(pipeline), specializationArgs)]

\* PipelineKey::operator==
PipelineKey_eq(a, b) ==
    IF a.pipeline # b.pipeline THEN FALSE
    ELSE IF Len(a.specializationArgs) # Len(b.specializationArgs) THEN FALSE
    ELSE \A i \in 1..Len(b.specializationArgs) :
            a.specializationArgs[i] = b.specializationArgs[i]

(***************************************************************************)
(* std::unordered_map with a user hasher returning key.hash: a table is a  *)
(* sequence of [key, value] entries in insertion order; find() reaches an  *)
(* entry only through its hash and accepts it by the key's operator==.     *)
(***************************************************************************)
\* A mutated componentIds.find(key) that never finds the key.
componentIds_find_Miss(table, key) == 0

\* componentIds.find(key): index of the entry, 0 for end()
componentIds_find(table, key) ==
    First({i \in 1..Len(table) :
              /\ table[i].key.hash = key.hash
              /\ ComponentKey_eq(table[i].key, key)})

\* specializedPipelines.find(key): index of the entry, 0 for end()
specializedPipelines_find(table, key) ==
    First({i \in 1..Len(table) :
              /\ table[i].key.hash = key.hash
              /\ PipelineKey_eq(table[i].key, key)})

(***************************************************************************)
(* State.                                                                  *)
(***************************************************************************)
VARIABLES
    \* ShaderCache::componentIds, ShaderCache::specializedPipelines
    componentIds, specializedPipelines,
    \* the specialized programs Device::specializeProgram keeps, by signature
    specializedPrograms,
    \* observation: [key, id] pairs returned by getComponentId since the last free()
    issued,
    \* observation: ids returned by getComponentId before the last free()
    retired,
    \* observation: number of free() calls, the [key, value] of every program
    \* compiled (in order), the number of concrete pipelines created
    frees, compiled, created,
    \* observation: the call just made and what it returned
    lastCall

cacheVars == <<componentIds, specializedPipelines, specializedPrograms,
               issued, retired, frees, compiled, created>>

\* The state of the shader objects created on the device.
VARIABLES
    \* the layout each shader object was created from (m_layout)
    layoutName,
    \* ShaderObjectBase::m_state
    m_state,
    \* ShaderObjectBaseImpl::m_objects (0-based slots held at index + 1)
    m_objects,
    \* SimpleShaderObjectData::m_ordinaryData
    m_ordinaryData,
    \* ShaderObjectBaseImpl::m_userProvidedSpecializationArgs
    m_userProvidedSpecializationArgs,
    \* ShaderObjectBaseImpl::m_structuredBufferSpecializationArgs
    m_structuredBufferSpecializationArgs,
    \* ShaderObjectBase::shaderObjectType
    shaderObjectType,
    \* the resource bound per slot by setBinding (backend binding table)
    m_bindings,
    \* whether SLANG_RHI_ASSERT is compiled in (debug build) or not (NDEBUG)
    assertsEnabled,
    \* "none" while the process runs; otherwise why it stopped
    halt,
    \* observation: per container, the argument lists merged into its element
    \* signature so far, in order, each with the call that merged it
    merged

objVars == <<layoutName, m_state, m_objects, m_ordinaryData,
             m_userProvidedSpecializationArgs,
             m_structuredBufferSpecializationArgs, shaderObjectType,
             m_bindings, assertsEnabled, halt, merged>>

VARIABLES
    \* ShaderTable::m_deviceBuffers: the buffer stored per ray-tracing pipeline
    m_deviceBuffers,
    \* observation: the pipelines createDeviceBuffer was invoked for, in order;
    \* the invocation at position n made buffer n
    createdBuffers,
    \* the buffers whose last RefPtr was dropped
    releasedBuffers,
    \* per caller of getOrCreateBuffer: the statement it is about to execute
    callerPc,
    \* per caller: the pipeline argument, whether find() missed, and `result`
    callerFrame,
    \* observation: per caller, what its last completed call returned
    callerReturned,
    \* whether the callers serialize their calls
    serialized,
    \* the number of calls of getOrCreateBuffer started so far
    started

tableVars == <<m_deviceBuffers, createdBuffers, releasedBuffers, callerPc,
               callerFrame, callerReturned, serialized, started>>

VARIABLES
    \* ComObject::comRefCount per object: the public (ComPtr) references
    comRefCount,
    \* RefObject's reference count per object
    referenceCount,
    \* per resource, its BreakableReference<Device> m_device
    m_device,
    \* the device's RefPtr to the resource it tracks as current state
    m_currentResource,
    \* observation: the objects whose destructors ran, in order
    destroyLog,
    \* observation: per resource, whether the device was still valid when the
    \* resource's destructor ran
    dtorDevice,
    \* observation: the objects whose public count reached zero, in order, each
    \* with the resource the device tracked at that moment
    zeroLog

refVars == <<comRefCount, referenceCount, m_device, m_currentResource,
             destroyLog, dtorDevice, zeroLog>>

VARIABLES
    \* one BreakableReference<T>: its m_strongPtr and its m_weakPtr
    breakable,
    \* RefObject's reference count of each object the reference may point at;
    \* an object whose count reached zero is destroyed
    targetCount,
    \* observation: per object, the references held by owners other than the
    \* BreakableReference
    otherOwners,
    \* observation: whether a destroyed object was referenced again
    misuse,
    \* the command queue that holds the reference as its m_device
    queue

brVars == <<breakable, targetCount, otherOwners, misuse, queue>>

VARIABLES
    \* the shader objects whose getSpecializedShaderObjectType (a virtual call
    \* into the backend and the compiler) returns a failure
    failingTypes

VARIABLES
    \* one call of ShaderObjectLayout::_unwrapParameterGroups: where it is, its
    \* argument, its local typeLayout and outContainerType, the passes of its
    \* loop, and whether the condition of one of its assertions was false
    unwrap

VARIABLES
    \* one wgpu BufferImpl: its m_isMapped, whether the native buffer is
    \* mapped, the map callbacks the native API still holds, and how many
    \* map() and unmap() calls have returned success
    buffer

VARIABLES
    \* the last call of DeviceImpl::readBuffer or DeviceImpl::createBuffer of
    \* the wgpu backend: the calls it made on the native API, in order, its
    \* result, and whether the caller still holds the buffer it returned
    transfer

\* the state a call on a reference or on a queue leaves alone
restVars == <<failingTypes, unwrap, buffer, transfer>>

\* the state that only the specifications of single components use
extVars == <<brVars, failingTypes, unwrap, buffer, transfer>>

\* the state of the shader table and of the reference counts, which the calls
\* on the shader cache and on shader objects leave alone
auxVars == <<tableVars, refVars, extVars>>

vars == <<cacheVars, lastCall, objVars, auxVars>>

\* Result codes
SLANG_OK == "SLANG_OK"
SLANG_FAIL == "SLANG_FAIL"
SLANG_E_INVALID_ARG == "SLANG_E_INVALID_ARG"
SLANG_E_NOT_IMPLEMENTED == "SLANG_E_NOT_IMPLEMENTED"

\* the record describing a call: the operation, its receiver, its argument,
\* its result, and whether a table lookup hit
Call(op, obj, arg, res, hit) ==
    [op |-> op, obj |-> obj, arg |-> arg, res |-> res, hit |-> hit]

(***************************************************************************)
(* ShaderCache                                                             *)
(***************************************************************************)
\* ShaderCache::getComponentId(ComponentKey key): look the key up; on a miss
\* insert it with the next sequential id (the table is the only state the
\* class has, so the next id is the number of entries).
ShaderCache_getComponentId(table, key) ==
    The({IF at # 0
         THEN [table |-> table, id |-> table[at].value, hit |-> TRUE]
         ELSE [table |-> Append(table, [key |-> key, value |-> Len(table)]),
               id |-> Len(table), hit |-> FALSE] :
            at \in {componentIds_find(table, key)}})

\* A mutated getSpecializedPipeline that only finds the entry inserted first.
ShaderCache_getSpecializedPipeline_OnlyFirst(table, programKey) ==
    IF specializedPipelines_find(table, programKey) = 1 THEN table[1].value ELSE NULL

\* A mutated getSpecializedPipeline that returns the first entry of the
\* table whatever the key.
ShaderCache_getSpecializedPipeline_AnyEntry(table, programKey) ==
    IF Len(table) > 0 THEN table[1].value ELSE NULL

\* ShaderCache::getSpecializedPipeline(PipelineKey programKey)
ShaderCache_getSpecializedPipeline(table, programKey) ==
    The({IF it # 0 THEN table[it].value ELSE NULL :
            it \in {specializedPipelines_find(table, programKey)}})

\* ShaderCache::addSpecializedPipeline(key, specializedPipeline)
ShaderCache_addSpecializedPipeline(table, key, specializedPipeline) ==
    IF specializedPipelines_find(table, key) # 0 THEN table
    ELSE Append(table, [key |-> key, value |-> specializedPipeline])

\* what the observation variables record for one getComponentId call
Issue(log, key, id) == log \cup {[key |-> key, id |-> id]}

\* the specialization-argument id lists of the keys a client builds: two
\* of them are permutations of each other, with ids chosen so that the two
\* keys hash alike and only operator== tells them apart
ArgIdInputs == {<<0>>, <<0, HashMod>>, <<HashMod, 0>>}

\* the pre-built keys getComponentId is called with
ComponentKeyInputs ==
    {ComponentKey_updateHash(n, a) : n \in {"A", "B"}, a \in ArgIdInputs}

\* getComponentId(slang::TypeReflection* type) / getComponentId(name):
\* a key of the name with no arguments.
GetComponentIdOfType(typeName) ==
    \E key \in {ComponentKey_updateHash(typeName, <<>>)} :
    \E r \in {ShaderCache_getComponentId(componentIds, key)} :
        /\ UNCHANGED auxVars
        /\ r.hit \/ Len(componentIds) < MaxEntries
        /\ componentIds' = r.table
        /\ issued' = Issue(issued, key, r.id)
        /\ lastCall' = Call("getComponentId", NULL, key, r.id, r.hit)
        /\ UNCHANGED <<specializedPipelines, specializedPrograms, retired,
                       frees, compiled, created, objVars>>

\* getComponentId(ComponentKey key) with a pre-built key
GetComponentIdOfKey(key) ==
    \E r \in {ShaderCache_getComponentId(componentIds, key)} :
        /\ UNCHANGED auxVars
        /\ key.specializationArgs # <<>>
        /\ r.hit \/ Len(componentIds) < MaxEntries
        /\ componentIds' = r.table
        /\ issued' = Issue(issued, key, r.id)
        /\ lastCall' = Call("getComponentId", NULL, key, r.id, r.hit)
        /\ UNCHANGED <<specializedPipelines, specializedPrograms, retired,
                       frees, compiled, created, objVars>>

\* ShaderCache::free(): both tables become default-constructed
ShaderCache_free(ids, pipelines) ==
    [componentIds |-> <<>>, specializedPipelines |-> <<>>]

\* a client's call of shaderCache.free()
Free ==
    \E r \in {ShaderCache_free(componentIds, specializedPipelines)} :
        /\ UNCHANGED auxVars
        /\ frees < MaxFrees
        /\ componentIds' = r.componentIds
        /\ specializedPipelines' = r.specializedPipelines
        /\ retired' = retired \cup {e.id : e \in issued}
        /\ issued' = {}
        /\ frees' = frees + 1
        /\ lastCall' = Call("free", NULL, NULL, SLANG_OK, FALSE)
        /\ UNCHANGED <<specializedPrograms, compiled, created, objVars>>

(***************************************************************************)
(* Reflection data (supplied by the compiler collaborator).                *)
(*                                                                         *)
(* A type layout gives the element type's name and kind, the container     *)
(* classification, the element stride/size in bytes, the binding ranges    *)
(* and the sub-object ranges.  A binding range gives its binding type, its *)
(* element count, the index of its first sub-object slot, whether it is    *)
(* specializable, the uniform offset of its first element, the uniform     *)
(* stride between elements, and for an existential leaf the interface and  *)
(* the size of the payload region that follows the 16-byte header.         *)
(***************************************************************************)
\* payloadOffset.uniformOffset += 16
ExistentialHeaderSize == 16
\* witnessTableOffset of the existential tuple (RTTI id at 0, witness id at 8)
WitnessTableOffset == 8

Range(bindingType, count, subObjectIndex, isSpecializable, uniformOffset, payloadSize) ==
    [bindingType |-> bindingType, count |-> count,
     subObjectIndex |-> subObjectIndex, isSpecializable |-> isSpecializable,
     uniformOffset |-> uniformOffset, payloadSize |-> payloadSize,
     leafType |-> "IFoo"]

TypeLayout(typeName, kind, containerType, stride, bindingRanges, subObjectRanges, subObjectCount) ==
    [typeName |-> typeName, kind |-> kind, containerType |-> containerType,
     stride |-> stride, bindingRanges |-> bindingRanges,
     subObjectRanges |-> subObjectRanges, subObjectCount |-> subObjectCount]

\* the type layouts of the shader program the objects are created from
Layouts ==
    [n \in {"A", "B", "Big", "Mid", "Root", "Top", "Pair", "Buf", "Arr"} |->
        CASE n = "A"   -> TypeLayout("A", "Struct", "None", 2, <<>>, <<>>, 0)
          [] n = "B"   -> TypeLayout("B", "Struct", "None", 2, <<>>, <<>>, 0)
          [] n = "Big" -> TypeLayout("Big", "Struct", "None", 3, <<>>, <<>>, 0)
          \* struct Mid { IFoo foo; }
          [] n = "Mid" -> TypeLayout("Mid", "Struct", "None", 18,
                            <<Range("ExistentialValue", 1, 0, FALSE, 0, 2)>>,
                            <<0>>, 1)
          \* struct Root { ParameterBlock<Mid> mid; IFoo foo; }
          [] n = "Root" -> TypeLayout("Root", "Struct", "None", 18,
                            <<Range("ParameterBlock", 1, 0, FALSE, 0, 0),
                              Range("ExistentialValue", 1, 1, FALSE, 0, 2)>>,
                            <<0, 1>>, 2)
          \* struct Top { ParameterBlock<IScene> scene; IFoo foo; }
          [] n = "Top" -> TypeLayout("Top", "Struct", "None", 18,
                            <<Range("ParameterBlock", 1, 0, TRUE, 0, 0),
                              Range("ExistentialValue", 1, 1, FALSE, 0, 2)>>,
                            <<0, 1>>, 2)
          \* struct Pair { IFoo foo[2]; }
          [] n = "Pair" -> TypeLayout("Pair", "Struct", "None", 36,
                            <<Range("ExistentialValue", 2, 0, FALSE, 0, 2)>>,
                            <<0>>, 2)
          \* StructuredBuffer<IFoo>
          [] n = "Buf" -> TypeLayout("IFoo", "Interface", "StructuredBuffer", 18,
                            <<>>, <<>>, 0)
          \* StructuredBuffer<Mid>
          [] n = "Arr" -> TypeLayout("Mid", "Struct", "StructuredBuffer", 18,
                            <<>>, <<>>, 0)]

\* the types that conform to the interface IFoo
ConformingTypes == {"A", "B", "Big"}

\* session->getDynamicType()
DynamicType == [name |-> "__Dynamic", args |-> <<>>]

\* a plain (unspecialized) type
PlainType(name) == [name |-> name, args |-> <<>>]

NoType == [name |-> "", args |-> <<>>]

\* ExtendedShaderObjectType
ExtendedType(slangType, componentID) ==
    [slangType |-> slangType, componentID |-> componentID]

\* ShaderOffset
ShaderOffset(uniformOffset, bindingRangeIndex, bindingArrayIndex) ==
    [uniformOffset |-> uniformOffset, bindingRangeIndex |-> bindingRangeIndex,
     bindingArrayIndex |-> bindingArrayIndex]

Zeros(n) == [i \in 1..n |-> 0]

\* A mutated resize that value-initializes every slot.
Resize_Fresh(seq, count, fill) == [i \in 1..count |-> fill]

\* std::vector::resize(count): truncate, or extend with value-initialized slots
Resize(seq, count, fill) ==
    [i \in 1..count |-> IF i <= Len(seq) THEN seq[i] ELSE fill]

\* memcpy of src into dest at a 0-based offset, clamped to dest's size
CopyInto(dest, offset, src) ==
    [i \in 1..Len(dest) |->
        IF i > offset /\ i <= offset + Len(src) THEN src[i - offset] ELSE dest[i]]

(***************************************************************************)
(* Shader objects.                                                         *)
(***************************************************************************)
Obj == DOMAIN layoutName

\* getLayout()
LayoutOf(o) == Layouts[layoutName[o]]

\* outcomes of a call that does not return
ABORTED == "ABORTED"
STACK_OVERFLOW == "STACK_OVERFLOW"

\* whether a call with this result does not return
Stops(res) == res \in {ABORTED, STACK_OVERFLOW}

(***************************************************************************)
(* The state a nested call may read and write: the sub-object lists, the   *)
(* component-identity table (with its observation log), the cached         *)
(* specialized types, and whether an out-of-bounds access happened (the    *)
(* value such a read yields is junk, chosen by the caller's environment).  *)
(***************************************************************************)
World(objs, junk) ==
    [objs |-> objs, ids |-> componentIds, log |-> issued,
     sot |-> shaderObjectType, ub |-> FALSE, junk |-> junk]

\* device->shaderCache.getComponentId(key) inside a nested call
Intern(W, key) ==
    The({[W |-> [W EXCEPT !.ids = r.table, !.log = Issue(W.log, key, r.id)],
          id |-> r.id] :
            r \in {ShaderCache_getComponentId(W.ids, key)}})

\* device->shaderCache.getComponentId(type)
InternType(W, type) == Intern(W, ComponentKey_updateHash(type.name, <<>>))

\* the component ids of an ExtendedShaderObjectTypeList
ComponentIDs(list) == [i \in 1..Len(list) |-> list[i].componentID]

RECURSIVE InternLayouts(_, _, _)
\* ShaderObjectLayout::initBase for the layouts of objects o, o+1, ...: each
\* layout interns its element type when it is created
InternLayouts(names, o, table) ==
    IF o > Len(names) THEN table
    ELSE InternLayouts(names, o + 1,
            ShaderCache_getComponentId(table,
                ComponentKey_updateHash(Layouts[names[o]].typeName, <<>>)).table)

\* ShaderObjectLayout::getComponentID(): m_componentID, the id the layout's
\* element type was interned under when the layout was created
Layout_getComponentID(o) ==
    ShaderCache_getComponentId(InternLayouts(layoutName, 1, <<>>),
        ComponentKey_updateHash(LayoutOf(o).typeName, <<>>)).id

\* A mutated merge loop that leaves differing positions as they are.
MergeDynamic_KeepStored(stored, base, incoming, W) == [list |-> stored, W |-> W]

\* A mutated merge loop that indexes the stored list without the base.
MergeDynamic_NoBase(stored, base, incoming, W) ==
    IF \A i \in 1..(Len(stored) - base) :
          i <= Len(incoming) /\ stored[i].componentID = incoming[i].componentID
    THEN [list |-> stored, W |-> W]
    ELSE The({[list |-> [i \in 1..Len(stored) |->
                           IF i <= Len(stored) - base
                              /\ (i > Len(incoming)
                                    \/ stored[i].componentID # incoming[i].componentID)
                           THEN ExtendedType(DynamicType, d.id) ELSE stored[i]],
               W |-> d.W] :
                 d \in {InternType(W, DynamicType)}})

\* The loop shared by both merges: every position i of stored[base+1..] whose
\* component id differs from incoming[i] becomes the __Dynamic type; a read of
\* incoming past its end is out of bounds.
MergeDynamic(stored, base, incoming, W) ==
    LET n == Len(stored) - base
        inc(i) == IF i <= Len(incoming) THEN incoming[i].componentID ELSE W.junk
        differ == {i \in 1..n : stored[base + i].componentID # inc(i)}
        ub == W.ub \/ n > Len(incoming)
    IN  IF differ = {}
        THEN [list |-> stored, W |-> [W EXCEPT !.ub = ub]]
        ELSE The({[list |-> [i \in 1..Len(stored) |->
                               IF i > base /\ (i - base) \in differ
                               THEN ExtendedType(DynamicType, d.id) ELSE stored[i]],
                   W |-> [d.W EXCEPT !.ub = ub]] :
                     d \in {InternType(W, DynamicType)}})

\* A mutated merge that always adopts the incoming list.
setSpecializationArgsForContainerElement_Adopt(stored, specializationArgs, W) ==
    [res |-> SLANG_OK, list |-> specializationArgs, W |-> W]

\* setSpecializationArgsForContainerElement(specializationArgs)
setSpecializationArgsForContainerElement(stored, specializationArgs, W) ==
    IF Len(stored) = 0
    THEN [res |-> SLANG_OK, list |-> specializationArgs, W |-> W]
    ELSE IF assertsEnabled /\ Len(stored) # Len(specializationArgs)
    THEN [res |-> ABORTED, list |-> stored, W |-> W]
    ELSE The({[res |-> SLANG_OK, list |-> m.list, W |-> m.W] :
                 m \in {MergeDynamic(stored, 0, specializationArgs, W)}})

RECURSIVE getExtendedShaderTypeListFromSpecializationArgs(_, _, _)
\* getExtendedShaderTypeListFromSpecializationArgs(list, args, count)
getExtendedShaderTypeListFromSpecializationArgs(list, args, W) ==
    IF args = <<>> THEN [res |-> SLANG_OK, list |-> list, W |-> W]
    ELSE IF Head(args).kind # "Type"
    THEN [res |-> IF assertsEnabled THEN ABORTED ELSE SLANG_FAIL,
          list |-> list, W |-> W]
    ELSE The({getExtendedShaderTypeListFromSpecializationArgs(
                  Append(list, ExtendedType(Head(args).type, r.id)), Tail(args), r.W) :
                 r \in {InternType(W, Head(args).type)}})

RECURSIVE CollectSpecializationArgs(_, _, _, _)
RECURSIVE CollectRanges(_, _, _, _, _)
RECURSIVE CollectElements(_, _, _, _, _, _, _)
RECURSIVE getSpecializedShaderObjectType(_, _, _)

\* what getSpecializedShaderObjectType returns on success: the type, which
\* the object also keeps in shaderObjectType
SpecializedType(o, type, W) ==
    [res |-> SLANG_OK, type |-> type,
     W |-> [W EXCEPT !.sot = [@ EXCEPT ![o] = type]]]

\* ShaderObjectBase::getSpecializedShaderObjectType(outType): the object's own
\* type when it collects no specialization arguments, else its type
\* specialized by them, interned under (type name, argument ids)
getSpecializedShaderObjectType(o, W, stack) ==
    IF o \in failingTypes
    THEN [res |-> SLANG_FAIL, type |-> ExtendedType(NoType, kInvalidComponentID),
          W |-> W]
    ELSE
    The({IF r.res # SLANG_OK
         THEN [res |-> r.res, type |-> ExtendedType(NoType, kInvalidComponentID),
               W |-> r.W]
         ELSE IF Len(r.args) = 0
         THEN SpecializedType(o, ExtendedType(PlainType(LayoutOf(o).typeName),
                                              Layout_getComponentID(o)), r.W)
         ELSE The({SpecializedType(o,
                       ExtendedType([name |-> LayoutOf(o).typeName,
                                     args |-> ComponentIDs(r.args)], sp.id), sp.W) :
                     sp \in {Intern(r.W, ComponentKey_updateHash(LayoutOf(o).typeName,
                                                                 ComponentIDs(r.args)))}}) :
            r \in {CollectSpecializationArgs(o, <<>>, W, stack)}})

\* the switch on bindingRange.bindingType: the type arguments the sub-object
\* contributes
CollectTypeArgs(subObject, bindingRange, W, stack) ==
    LET bt == bindingRange.bindingType
        isBlock == bt \in {"ParameterBlock", "ConstantBuffer", "RawBuffer",
                           "MutableRawBuffer"}
    IN  IF bt = "ExistentialValue" \/ (isBlock /\ bindingRange.isSpecializable)
        THEN The({IF t.res # SLANG_OK
                  THEN [res |-> t.res, args |-> <<>>, W |-> t.W]
                  ELSE IF isBlock
                  THEN CollectSpecializationArgs(subObject, <<t.type>>, t.W, stack)
                  ELSE [res |-> SLANG_OK, args |-> <<t.type>>, W |-> t.W] :
                     t \in {getSpecializedShaderObjectType(subObject, W, stack)}})
        ELSE IF isBlock
        THEN CollectSpecializationArgs(subObject, <<>>, W, stack)
        ELSE [res |-> SLANG_OK, args |-> <<>>, W |-> W]

\* A mutated end of iteration that puts the new arguments in front.
AddTypeArgs_InFront(args, oldArgsCount, c) ==
    [res |-> c.res, args |-> c.args \o args, W |-> c.W]

\* the end of one iteration: the type arguments c.args are appended when the
\* range has added none yet, else merged into the ones it added
AddTypeArgs(args, oldArgsCount, c) ==
    IF c.res # SLANG_OK
    THEN [res |-> c.res, args |-> args, W |-> c.W]
    ELSE IF Len(args) - oldArgsCount = 0
    THEN [res |-> SLANG_OK, args |-> args \o c.args, W |-> c.W]
    ELSE IF assertsEnabled /\ Len(args) - oldArgsCount # Len(c.args)
    THEN [res |-> ABORTED, args |-> args, W |-> c.W]
    ELSE The({[res |-> SLANG_OK, args |-> m.list, W |-> m.W] :
                 m \in {MergeDynamic(args, oldArgsCount, c.args, c.W)}})

\* A mutated iteration that appends the type arguments and merges nothing.
CollectElement_Append(o, bindingRange, objectIndex, args, oldArgsCount, W, stack) ==
    IF W.objs[o][objectIndex + 1] = NULL
    THEN [res |-> SLANG_OK, args |-> args, W |-> W]
    ELSE AddTypeArgs(args, Len(args),
                     CollectTypeArgs(W.objs[o][objectIndex + 1], bindingRange, W, stack))

\* one iteration of the inner loop, for the sub-object at objectIndex
CollectElement(o, bindingRange, objectIndex, args, oldArgsCount, W, stack) ==
    LET subObject == W.objs[o][objectIndex + 1]
        user == m_userProvidedSpecializationArgs[o]
    IN  IF subObject = NULL
        THEN [res |-> SLANG_OK, args |-> args, W |-> W]
        ELSE IF objectIndex < Len(user) /\ user[objectIndex + 1].present
        THEN [res |-> SLANG_OK, args |-> args \o user[objectIndex + 1].list, W |-> W]
        ELSE AddTypeArgs(args, oldArgsCount,
                         CollectTypeArgs(subObject, bindingRange, W, stack))

\* the inner loop of collectSpecializationArgs over the elements of one
\* sub-object range, from element k on
CollectElements(o, bindingRange, k, args, oldArgsCount, W, stack) ==
    IF k >= bindingRange.count THEN [res |-> SLANG_OK, args |-> args, W |-> W]
    ELSE The({IF e.res # SLANG_OK THEN e
              ELSE CollectElements(o, bindingRange, k + 1, e.args, oldArgsCount,
                                   e.W, stack) :
                 e \in {CollectElement(o, bindingRange, bindingRange.subObjectIndex + k,
                                       args, oldArgsCount, W, stack)}})

\* the outer loop of collectSpecializationArgs over the sub-object ranges
CollectRanges(o, subObjectRangeIndex, args, W, stack) ==
    IF subObjectRangeIndex >= Len(LayoutOf(o).subObjectRanges)
    THEN [res |-> SLANG_OK, args |-> args, W |-> W]
    ELSE The({IF r.res # SLANG_OK THEN r
              ELSE CollectRanges(o, subObjectRangeIndex + 1, r.args, r.W, stack) :
                 r \in {CollectElements(o,
                          LayoutOf(o).bindingRanges[
                              LayoutOf(o).subObjectRanges[subObjectRangeIndex + 1] + 1],
                          0, args, Len(args), W, stack)}})

\* ShaderObjectBaseImpl::collectSpecializationArgs(args).  `stack` holds the
\* objects whose collectSpecializationArgs is active: entering one of them
\* again repeats the same descent without end.
CollectSpecializationArgs(o, args, W, stack) ==
    IF LayoutOf(o).containerType # "None"
    THEN [res |-> SLANG_OK,
          args |-> args \o m_structuredBufferSpecializationArgs[o], W |-> W]
    ELSE IF o \in stack
    THEN [res |-> STACK_OVERFLOW, args |-> args, W |-> W]
    ELSE CollectRanges(o, 0, args, W, stack \cup {o})

(***************************************************************************)
(* The per-object state one call works on.                                 *)
(***************************************************************************)
Self(o, W) ==
    [objects |-> W.objs[o], data |-> m_ordinaryData[o],
     sbArgs |-> m_structuredBufferSpecializationArgs[o],
     bindings |-> m_bindings[o]]

\* ShaderObjectBase::requireNotFinalized()
requireNotFinalized(state) == IF state = "Finalized" THEN SLANG_FAIL ELSE SLANG_OK

\* IShaderObject::setData(offset, data, size): rejected once Finalized, else
\* the bytes are copied at offset.uniformOffset, clamped to the buffer
ShaderObject_setData(state, data, offset, bytes) ==
    IF requireNotFinalized(state) # SLANG_OK
    THEN [res |-> SLANG_FAIL, data |-> data]
    ELSE [res |-> SLANG_OK, data |-> CopyInto(data, offset.uniformOffset, bytes)]

\* the ids the compiler collaborator gives a concrete type: its RTTI id and
\* the sequential id of its conformance to the interface
RttiId(typeName) == CHOOSE i \in 1..Len(TypeNames) : TypeNames[i] = typeName
WitnessId(typeName) == 10 + RttiId(typeName)

\* ShaderObjectBase::setExistentialHeader(existentialType, concreteType, offset):
\* fails when the concrete type does not conform to the interface, else
\* writes the RTTI id at the offset and the witness-table id 8 bytes after it
setExistentialHeader(state, data, concreteType, offset) ==
    IF concreteType.name \notin ConformingTypes
    THEN [res |-> SLANG_FAIL, data |-> data]
    ELSE The({IF rtti.res # SLANG_OK THEN rtti
              ELSE ShaderObject_setData(state, rtti.data,
                       [offset EXCEPT !.uniformOffset = @ + WitnessTableOffset],
                       <<WitnessId(concreteType.name)>>) :
                 rtti \in {ShaderObject_setData(state, data, offset,
                                                <<RttiId(concreteType.name)>>)}})

\* A mutated fit test that lets every value through.
doesValueFitInExistentialPayload_Always(concreteLayout, payloadSize) == TRUE

\* _doesValueFitInExistentialPayload(concreteTypeLayout, existentialFieldLayout)
doesValueFitInExistentialPayload(concreteLayout, payloadSize) ==
    concreteLayout.stride <= payloadSize

\* RefPtr<ExtendedShaderObjectTypeListObject>: empty, or holding a list
NoList == [present |-> FALSE, list |-> <<>>]
ListObject(list) == [present |-> TRUE, list |-> list]

\* what a call on object o returns: its result and o's fields after it
\* (incoming: the list the call merged into the element signature, if any)
Outcome(res, objects, data, sbArgs, bindings, W) ==
    [res |-> res, objects |-> objects, data |-> data, sbArgs |-> sbArgs,
     bindings |-> bindings, W |-> W, incoming |-> NoList]

\* the bytes of the sub-object copied by setObject (the parent's own buffer,
\* as it then is, when an object is set into itself)
SubObjectData(o, subObject, data) ==
    IF subObject = o THEN data ELSE m_ordinaryData[subObject]

\* setObject, case 1, the common end: the element's bytes are written at
\* payloadOffset and its specialization arguments merged into the container's
SetObject_Element(o, payloadOffset, subObject, objects, data, specializationArgs, W) ==
    The({IF sd.res # SLANG_OK
         THEN Outcome(sd.res, objects, data,
                      m_structuredBufferSpecializationArgs[o], m_bindings[o], W)
         ELSE The({[Outcome(mg.res, objects, sd.data, mg.list, m_bindings[o], mg.W)
                      EXCEPT !.incoming = ListObject(specializationArgs)] :
                     mg \in {setSpecializationArgsForContainerElement(
                                m_structuredBufferSpecializationArgs[o],
                                specializationArgs, W)}}) :
            sd \in {ShaderObject_setData(m_state[o], data, payloadOffset,
                                         SubObjectData(o, subObject, data))}})

\* setObject, case 1 for interface-typed elements, after the element's
\* specialized type t was computed: the existential header, then the payload
SetObject_InterfaceElement(o, offset, subObject, objects, data, t) ==
    IF t.res # SLANG_OK
    THEN Outcome(t.res, objects, data,
                 m_structuredBufferSpecializationArgs[o], m_bindings[o], t.W)
    ELSE The({IF h.res # SLANG_OK
              THEN Outcome(h.res, objects, data,
                           m_structuredBufferSpecializationArgs[o], m_bindings[o], t.W)
              ELSE SetObject_Element(o,
                       [offset EXCEPT !.uniformOffset = @ + ExistentialHeaderSize],
                       subObject, objects, h.data, <<t.type>>, t.W) :
                 h \in {setExistentialHeader(m_state[o], data, t.type.slangType, offset)}})

\* setObject, case 1 for concrete elements, after the element's
\* specialization arguments c were collected (the Result is dropped)
SetObject_ConcreteElement(o, offset, subObject, objects, data, c) ==
    IF Stops(c.res)
    THEN Outcome(c.res, objects, data,
                 m_structuredBufferSpecializationArgs[o], m_bindings[o], c.W)
    ELSE SetObject_Element(o, offset, subObject, objects, data, c.args, c.W)

\* setObject, case 1: `this` is a container and `object` becomes its element
\* at offset.bindingArrayIndex
SetObject_Container(o, offset, subObject, W0) ==
    LET L == LayoutOf(o)
        grow == offset.bindingArrayIndex >= Len(W0.objs[o])
        objects1 == IF grow THEN Resize(W0.objs[o], offset.bindingArrayIndex + 1, NULL)
                    ELSE W0.objs[o]
        data1 == IF grow
                 THEN Resize(m_ordinaryData[o], (offset.bindingArrayIndex + 1) * L.stride, 0)
                 ELSE m_ordinaryData[o]
        objects2 == [objects1 EXCEPT ![offset.bindingArrayIndex + 1] = subObject]
        W1 == [W0 EXCEPT !.objs = [@ EXCEPT ![o] = objects2]]
    IN  IF L.kind = "Interface"
        THEN SetObject_InterfaceElement(o, offset, subObject, objects2, data1,
                 getSpecializedShaderObjectType(subObject, W1, {}))
        ELSE SetObject_ConcreteElement(o, offset, subObject, objects2, data1,
                 CollectSpecializationArgs(subObject, <<>>, W1, {}))

\* A mutated case 3 that takes the sub-object and the header back when the
\* value does not fit.
SetObject_Existential_Rollback(o, offset, subObject, bindingRange, objects, h, W) ==
    IF h.res # SLANG_OK
    THEN Outcome(h.res, objects, m_ordinaryData[o],
                 m_structuredBufferSpecializationArgs[o], m_bindings[o], W)
    ELSE IF doesValueFitInExistentialPayload(LayoutOf(subObject), bindingRange.payloadSize)
    THEN Outcome(SLANG_OK, objects,
                 ShaderObject_setData(m_state[o], h.data,
                     [offset EXCEPT !.uniformOffset = @ + ExistentialHeaderSize],
                     SubObjectData(o, subObject, h.data)).data,
                 m_structuredBufferSpecializationArgs[o], m_bindings[o], W)
    ELSE Outcome(SLANG_E_NOT_IMPLEMENTED, m_objects[o], m_ordinaryData[o],
                 m_structuredBufferSpecializationArgs[o], m_bindings[o], W)

\* setObject, case 3 for an existential leaf field, after the header h was
\* written: the payload is copied when the value fits (the Result of that
\* setData is not looked at)
SetObject_Existential(o, offset, subObject, bindingRange, objects, h, W) ==
    IF h.res # SLANG_OK
    THEN Outcome(h.res, objects, m_ordinaryData[o],
                 m_structuredBufferSpecializationArgs[o], m_bindings[o], W)
    ELSE IF doesValueFitInExistentialPayload(LayoutOf(subObject), bindingRange.payloadSize)
    THEN Outcome(SLANG_OK, objects,
                 ShaderObject_setData(m_state[o], h.data,
                     [offset EXCEPT !.uniformOffset = @ + ExistentialHeaderSize],
                     SubObjectData(o, subObject, h.data)).data,
                 m_structuredBufferSpecializationArgs[o], m_bindings[o], W)
    ELSE Outcome(SLANG_E_NOT_IMPLEMENTED, objects, h.data,
                 m_structuredBufferSpecializationArgs[o], m_bindings[o], W)

\* setObject, cases 2 and 3: `object` is set as a structured buffer, constant
\* buffer, parameter block or existential value of a binding range of `this`
SetObject_Field(o, offset, subObject, W0) ==
    LET L == LayoutOf(o)
        me == Self(o, W0)
        bindingRange == L.bindingRanges[offset.bindingRangeIndex + 1]
        index == bindingRange.subObjectIndex + offset.bindingArrayIndex
        inBounds == index >= 0 /\ index < Len(me.objects)
        objects1 == IF inBounds THEN [me.objects EXCEPT ![index + 1] = subObject]
                    ELSE me.objects
        W1 == [W0 EXCEPT !.objs = [@ EXCEPT ![o] = objects1], !.ub = ~inBounds]
        bindings1 == IF inBounds THEN [me.bindings EXCEPT ![index + 1] = subObject]
                     ELSE me.bindings
    IN  IF offset.bindingRangeIndex < 0
        THEN Outcome(SLANG_E_INVALID_ARG, me.objects, me.data, me.sbArgs, me.bindings, W0)
        ELSE IF offset.bindingRangeIndex >= Len(L.bindingRanges)
        THEN Outcome(SLANG_E_INVALID_ARG, me.objects, me.data, me.sbArgs, me.bindings, W0)
        ELSE IF bindingRange.bindingType = "ExistentialValue"
        THEN SetObject_Existential(o, offset, subObject, bindingRange, objects1,
                 setExistentialHeader(m_state[o], me.data,
                                      PlainType(LayoutOf(subObject).typeName), offset),
                 W1)
        ELSE IF bindingRange.bindingType \in {"MutableRawBuffer", "RawBuffer"}
        THEN Outcome(SLANG_OK, objects1, me.data, me.sbArgs, bindings1, W1)
        ELSE Outcome(SLANG_OK, objects1, me.data, me.sbArgs, me.bindings, W1)

\* ShaderObjectBaseImpl::getObject(offset, outObject): out is the object
\* handed back (NULL for an empty slot); a slot that m_objects does not have
\* is read out of bounds
ShaderObject_getObject(o, offset, W0) ==
    LET L == LayoutOf(o)
        index == L.bindingRanges[offset.bindingRangeIndex + 1].subObjectIndex
                   + offset.bindingArrayIndex
    IN  IF offset.bindingRangeIndex < 0
        THEN [res |-> SLANG_E_INVALID_ARG, out |-> NULL, ub |-> FALSE]
        ELSE IF offset.bindingRangeIndex >= Len(L.bindingRanges)
        THEN [res |-> SLANG_E_INVALID_ARG, out |-> NULL, ub |-> FALSE]
        ELSE IF index >= 0 /\ index < Len(W0.objs[o])
        THEN [res |-> SLANG_OK, out |-> W0.objs[o][index + 1], ub |-> FALSE]
        ELSE [res |-> SLANG_OK, out |-> W0.junk, ub |-> TRUE]

\* A mutated setObject whose state switch lets a Finalized object through.
ShaderObject_setObject_NoStateCheck(o, offset, subObject, W0) ==
    LET me == Self(o, W0)
    IN  IF m_state[o] = "Initialized" /\ m_state[subObject] # "Finalized"
        THEN Outcome(SLANG_FAIL, me.objects, me.data, me.sbArgs, me.bindings, W0)
        ELSE IF LayoutOf(o).containerType # "None"
        THEN SetObject_Container(o, offset, subObject, W0)
        ELSE SetObject_Field(o, offset, subObject, W0)

\* A mutated setObject whose Initialized case does not look at the
\* sub-object's state.
ShaderObject_setObject_AnySubObject(o, offset, subObject, W0) ==
    LET me == Self(o, W0)
    IN  IF m_state[o] = "Finalized"
        THEN Outcome(SLANG_FAIL, me.objects, me.data, me.sbArgs, me.bindings, W0)
        ELSE IF LayoutOf(o).containerType # "None"
        THEN SetObject_Container(o, offset, subObject, W0)
        ELSE SetObject_Field(o, offset, subObject, W0)

\* ShaderObjectBaseImpl::setObject(offset, object)
ShaderObject_setObject(o, offset, subObject, W0) ==
    LET me == Self(o, W0)
        rejected == \/ m_state[o] = "Finalized"
                    \/ m_state[o] = "Initialized" /\ m_state[subObject] # "Finalized"
    IN  IF rejected
        THEN Outcome(SLANG_FAIL, me.objects, me.data, me.sbArgs, me.bindings, W0)
        ELSE IF LayoutOf(o).containerType # "None"
        THEN SetObject_Container(o, offset, subObject, W0)
        ELSE SetObject_Field(o, offset, subObject, W0)

\* what setSpecializationArgs returns: its result and o's lists after it
ArgsOutcome(res, user, sbArgs, W) ==
    [res |-> res, user |-> user, sbArgs |-> sbArgs, W |-> W, incoming |-> NoList]

\* setSpecializationArgs on a container, after the arguments were converted
\* into `fill`: the list is merged into the element signature
SetSpecializationArgs_Container(o, fill) ==
    IF fill.res # SLANG_OK
    THEN ArgsOutcome(fill.res, m_userProvidedSpecializationArgs[o],
                     m_structuredBufferSpecializationArgs[o], fill.W)
    ELSE The({[ArgsOutcome(mg.res, m_userProvidedSpecializationArgs[o], mg.list, mg.W)
                  EXCEPT !.incoming = ListObject(fill.list)] :
                 mg \in {setSpecializationArgsForContainerElement(
                            m_structuredBufferSpecializationArgs[o], fill.list, fill.W)}})

\* setSpecializationArgs on a binding range, after the arguments were
\* converted into `fill`: the list replaces the one stored for the
\* sub-object index (a list that failed to convert stays as far as filled)
SetSpecializationArgs_Field(o, objectIndex, fill) ==
    LET user == m_userProvidedSpecializationArgs[o]
        user1 == IF objectIndex >= Len(user) THEN Resize(user, objectIndex + 1, NoList)
                 ELSE user
    IN  ArgsOutcome(fill.res, [user1 EXCEPT ![objectIndex + 1] = ListObject(fill.list)],
                    m_structuredBufferSpecializationArgs[o], fill.W)

\* A mutated start of the refill that keeps the list stored earlier.
UserList_keep(user, objectIndex) ==
    IF objectIndex < Len(user) THEN user[objectIndex + 1].list ELSE <<>>

\* the list setSpecializationArgs fills for a sub-object index: a new list
\* object, or the one stored earlier after clear()
UserList_clear(user, objectIndex) == <<>>

\* setSpecializationArgs after its isFinalized() test
SetSpecializationArgs_NotFinalized(o, offset, args, W0) ==
    LET L == LayoutOf(o)
    IN  IF L.containerType # "None"
        THEN SetSpecializationArgs_Container(o,
                 getExtendedShaderTypeListFromSpecializationArgs(<<>>, args, W0))
        ELSE IF offset.bindingRangeIndex < 0
        THEN ArgsOutcome(SLANG_E_INVALID_ARG, m_userProvidedSpecializationArgs[o],
                         m_structuredBufferSpecializationArgs[o], W0)
        ELSE IF offset.bindingRangeIndex >= Len(L.bindingRanges)
        THEN ArgsOutcome(SLANG_E_INVALID_ARG, m_userProvidedSpecializationArgs[o],
                         m_structuredBufferSpecializationArgs[o], W0)
        ELSE SetSpecializationArgs_Field(o,
                 L.bindingRanges[offset.bindingRangeIndex + 1].subObjectIndex
                   + offset.bindingArrayIndex,
                 getExtendedShaderTypeListFromSpecializationArgs(
                     UserList_clear(m_userProvidedSpecializationArgs[o],
                         L.bindingRanges[offset.bindingRangeIndex + 1].subObjectIndex
                           + offset.bindingArrayIndex),
                     args, W0))

\* ShaderObjectBaseImpl::setSpecializationArgs(offset, args, count)
ShaderObject_setSpecializationArgs(o, offset, args, W0) ==
    IF m_state[o] = "Finalized"
    THEN ArgsOutcome(SLANG_FAIL, m_userProvidedSpecializationArgs[o],
                     m_structuredBufferSpecializationArgs[o], W0)
    ELSE SetSpecializationArgs_NotFinalized(o, offset, args, W0)

RECURSIVE ShaderObject_finalize(_, _, _, _)
RECURSIVE FinalizeSubObjects(_, _, _, _, _)

\* the loop of finalize() over m_objects, from slot i on
FinalizeSubObjects(o, i, st, objs, stack) ==
    IF i > Len(objs[o]) THEN [res |-> SLANG_OK, st |-> st]
    ELSE The({IF r.res # SLANG_OK THEN r
              ELSE FinalizeSubObjects(o, i + 1, r.st, objs, stack) :
                 r \in {IF objs[o][i] # NULL /\ st[objs[o][i]] # "Finalized"
                        THEN ShaderObject_finalize(objs[o][i], st, objs, stack)
                        ELSE [res |-> SLANG_OK, st |-> st]}})

\* A mutated finalize() that does not finalize the sub-objects.
ShaderObject_finalize_Shallow(o, st, objs, stack) ==
    IF assertsEnabled /\ st[o] # "Initialized" THEN [res |-> ABORTED, st |-> st]
    ELSE IF st[o] = "Finalized" THEN [res |-> SLANG_FAIL, st |-> st]
    ELSE [res |-> SLANG_OK, st |-> [st EXCEPT ![o] = "Finalized"]]

\* A mutated finalize() that re-opens an object that is already Finalized.
ShaderObject_finalize_Reopen(o, st, objs, stack) ==
    IF st[o] = "Finalized"
    THEN [res |-> SLANG_OK, st |-> [st EXCEPT ![o] = "Initialized"]]
    ELSE IF assertsEnabled /\ st[o] # "Initialized" THEN [res |-> ABORTED, st |-> st]
    ELSE [res |-> SLANG_OK, st |-> [st EXCEPT ![o] = "Finalized"]]

\* ShaderObjectBaseImpl::finalize().  `stack` holds the objects whose
\* finalize() is active: entering one of them again repeats the same descent
\* without end.
ShaderObject_finalize(o, st, objs, stack) ==
    IF assertsEnabled /\ st[o] # "Initialized"
    THEN [res |-> ABORTED, st |-> st]
    ELSE IF st[o] = "Finalized"
    THEN [res |-> SLANG_FAIL, st |-> st]
    ELSE IF o \in stack
    THEN [res |-> STACK_OVERFLOW, st |-> st]
    ELSE The({IF subs.res # SLANG_OK THEN subs
              ELSE [res |-> SLANG_OK, st |-> [subs.st EXCEPT ![o] = "Finalized"]] :
                 subs \in {FinalizeSubObjects(o, 1, st, objs, stack \cup {o})}})

(***************************************************************************)
(* The calls a client makes on shader objects.                             *)
(***************************************************************************)
\* values an out-of-bounds read of a component id may yield
JunkIds == {kInvalidComponentID, 0}

\* the offsets a client names on object o with element indices up to maxIndex:
\* for a container the element with its byte offset; otherwise a binding-range
\* index (also one below and one past the declared ranges) and an element
\* index within it
OffsetsOf(o, maxIndex) ==
    LET L == LayoutOf(o)
    IN  IF L.containerType # "None"
        THEN {ShaderOffset(i * L.stride, 0, i) : i \in 0..maxIndex}
        ELSE {ShaderOffset(
                 IF r \in 0..(Len(L.bindingRanges) - 1)
                 THEN L.bindingRanges[r + 1].uniformOffset
                        + i * (ExistentialHeaderSize + L.bindingRanges[r + 1].payloadSize)
                 ELSE 0, r, i) :
                 r \in (-1)..Len(L.bindingRanges), i \in 0..maxIndex}

\* the specialization-argument arrays a client passes
ArgInputs ==
    {<<[kind |-> "Type", type |-> PlainType("A")]>>}

\* the environment of one call: the process is running
Running == halt = "none"

\* what a call that ended with result res leaves in halt: set when the call
\* did not return (crash: an out-of-bounds access took the process down)
Halt(res, crash) == IF crash THEN "CRASHED" ELSE IF Stops(res) THEN res ELSE "none"

\* a client's call of setObject
SetObject(o, offset, subObject) ==
    /\ UNCHANGED auxVars
    /\ Running
    /\ \E junk \in JunkIds :
       \E r \in {ShaderObject_setObject(o, offset, subObject, World(m_objects, junk))} :
       \E crash \in (IF r.W.ub THEN BOOLEAN ELSE {FALSE}) :
          /\ lastCall' = Call("setObject", o, subObject,
                              IF crash THEN "CRASHED" ELSE r.res, FALSE)
          /\ halt' = Halt(r.res, crash)
          /\ IF crash \/ Stops(r.res)
             THEN UNCHANGED <<m_objects, m_ordinaryData,
                              m_structuredBufferSpecializationArgs, m_bindings,
                              componentIds, issued, shaderObjectType, merged>>
             ELSE /\ merged' = (IF r.incoming.present
                                THEN [merged EXCEPT ![o] = Append(@,
                                        [op |-> "setObject", list |-> r.incoming.list])]
                                ELSE merged)
                  /\ m_objects' = [m_objects EXCEPT ![o] = r.objects]
                  /\ m_ordinaryData' = [m_ordinaryData EXCEPT ![o] = r.data]
                  /\ m_structuredBufferSpecializationArgs' =
                       [m_structuredBufferSpecializationArgs EXCEPT ![o] = r.sbArgs]
                  /\ m_bindings' = [m_bindings EXCEPT ![o] = r.bindings]
                  /\ componentIds' = r.W.ids
                  /\ issued' = r.W.log
                  /\ shaderObjectType' = r.W.sot
    /\ UNCHANGED <<layoutName, m_state, m_userProvidedSpecializationArgs, assertsEnabled,
                   specializedPipelines, specializedPrograms, retired, frees,
                   compiled, created>>

\* a client's call of getObject
GetObject(o, offset) ==
    /\ UNCHANGED auxVars
    /\ Running
    /\ \E junk \in JunkIds :
       \E r \in {ShaderObject_getObject(o, offset, World(m_objects, junk))} :
       \E crash \in (IF r.ub THEN BOOLEAN ELSE {FALSE}) :
          /\ lastCall' = Call("getObject", o, NULL,
                              IF crash THEN "CRASHED" ELSE r.res, r.ub)
          /\ halt' = Halt(r.res, crash)
    /\ UNCHANGED <<cacheVars, layoutName, m_state, m_objects, m_ordinaryData,
                   m_userProvidedSpecializationArgs,
                   m_structuredBufferSpecializationArgs, shaderObjectType,
                   m_bindings, assertsEnabled, merged>>

\* a client's call of setData
SetData(o, offset, bytes) ==
    /\ UNCHANGED auxVars
    /\ Running
    /\ \E r \in {ShaderObject_setData(m_state[o], m_ordinaryData[o], offset, bytes)} :
          /\ lastCall' = Call("setData", o, NULL, r.res, FALSE)
          /\ m_ordinaryData' = [m_ordinaryData EXCEPT ![o] = r.data]
    /\ UNCHANGED <<cacheVars, layoutName, m_state, m_objects,
                   m_userProvidedSpecializationArgs,
                   m_structuredBufferSpecializationArgs, shaderObjectType,
                   m_bindings, assertsEnabled, halt, merged>>

\* a client's call of setSpecializationArgs
SetSpecializationArgs(o, offset, args) ==
    /\ UNCHANGED auxVars
    /\ Running
    /\ \E junk \in JunkIds :
       \E r \in {ShaderObject_setSpecializationArgs(o, offset, args,
                                                    World(m_objects, junk))} :
       \E crash \in (IF r.W.ub THEN BOOLEAN ELSE {FALSE}) :
          /\ lastCall' = Call("setSpecializationArgs", o,
                              [offset |-> offset, args |-> args],
                              IF crash THEN "CRASHED" ELSE r.res, FALSE)
          /\ halt' = Halt(r.res, crash)
          /\ IF crash \/ Stops(r.res)
             THEN UNCHANGED <<m_userProvidedSpecializationArgs,
                              m_structuredBufferSpecializationArgs,
                              componentIds, issued, merged>>
             ELSE /\ merged' = (IF r.incoming.present
                                THEN [merged EXCEPT ![o] = Append(@,
                                        [op |-> "setSpecializationArgs",
                                         list |-> r.incoming.list])]
                                ELSE merged)
                  /\ m_userProvidedSpecializationArgs' =
                       [m_userProvidedSpecializationArgs EXCEPT ![o] = r.user]
                  /\ m_structuredBufferSpecializationArgs' =
                       [m_structuredBufferSpecializationArgs EXCEPT ![o] = r.sbArgs]
                  /\ componentIds' = r.W.ids
                  /\ issued' = r.W.log
    /\ UNCHANGED <<layoutName, m_state, m_objects, m_ordinaryData, shaderObjectType,
                   m_bindings, assertsEnabled, specializedPipelines,
                   specializedPrograms, retired, frees, compiled, created>>

\* a client's call of finalize; the call record's argument is the number of
\* objects the call moved to another state
Finalize(o) ==
    /\ UNCHANGED auxVars
    /\ Running
    /\ \E r \in {ShaderObject_finalize(o, m_state, m_objects, {})} :
          /\ lastCall' = Call("finalize", o,
                              Cardinality({x \in Obj : r.st[x] # m_state[x]}),
                              r.res, FALSE)
          /\ halt' = Halt(r.res, FALSE)
          /\ m_state' = (IF Stops(r.res) THEN m_state ELSE r.st)
    /\ UNCHANGED <<cacheVars, layoutName, m_objects, m_ordinaryData,
                   m_userProvidedSpecializationArgs,
                   m_structuredBufferSpecializationArgs, shaderObjectType,
                   m_bindings, assertsEnabled, merged>>

\* the end of a shader object's initialization: all sub-objects have been
\* added and the object leaves the Initial state
MarkInitialized(o) ==
    /\ UNCHANGED auxVars
    /\ Running
    /\ m_state[o] = "Initial"
    /\ m_state' = [m_state EXCEPT ![o] = "Initialized"]
    /\ lastCall' = Call("initialized", o, NULL, SLANG_OK, FALSE)
    /\ UNCHANGED <<cacheVars, layoutName, m_objects, m_ordinaryData,
                   m_userProvidedSpecializationArgs,
                   m_structuredBufferSpecializationArgs, shaderObjectType,
                   m_bindings, assertsEnabled, halt, merged>>

(***************************************************************************)
(* Device: specializeProgram / getConcretePipeline, and the lookups a      *)
(* client makes in the shader cache.                                       *)
(***************************************************************************)
\* the pipelines a client holds: virtual ones (isVirtual() is true) and
\* concrete ones
VirtualPipelines == {1, 2}
ConcretePipelines == {3}

\* A mutated isVirtual() that is true of every pipeline.
Pipeline_isVirtual_Always(pipeline) == TRUE

\* Pipeline::isVirtual()
Pipeline_isVirtual(pipeline) == pipeline \in VirtualPipelines

\* Pipeline::m_program: the virtual pipelines share one program
Pipeline_m_program(pipeline) == IF pipeline \in VirtualPipelines THEN 1 ELSE 2

\* the reference of the n-th program compiled / the n-th pipeline created
NewProgram(n) == 100 + n
NewPipeline(n) == 10 + n

\* the signature of a specialized program: the base program's identity and
\* the ordered argument ids
ProgramKey(program, argIds) == [program |-> program, specializationArgs |-> argIds]

\* index of the signature in the program table, 0 when absent
specializedPrograms_find(table, key) ==
    First({i \in 1..Len(table) : table[i].key = key})

\* A mutated specializeProgram that compiles without looking the signature up.
Device_specializeProgram_NoLookup(table, program, argIds, fresh) ==
    [table |-> Append(table, [key |-> ProgramKey(program, argIds), value |-> fresh]),
     program |-> fresh, hit |-> FALSE]

\* Device::specializeProgram(program, specializationArgs, outSpecializedProgram):
\* on a hit the cached specialized program; on a miss the compiler produces
\* a new one (`fresh`), which is inserted under the signature and returned
Device_specializeProgram(table, program, argIds, fresh) ==
    The({IF at # 0
         THEN [table |-> table, program |-> table[at].value, hit |-> TRUE]
         ELSE [table |-> Append(table, [key |-> ProgramKey(program, argIds),
                                        value |-> fresh]),
               program |-> fresh, hit |-> FALSE] :
            at \in {specializedPrograms_find(table, ProgramKey(program, argIds))}})

\* what the compilation log records for one specializeProgram call
Compile(log, r, program, argIds) ==
    IF r.hit THEN log
    ELSE Append(log, [key |-> ProgramKey(program, argIds), value |-> r.program])

\* a client's call of specializeProgram
SpecializeProgram(program, argIds) ==
    \E r \in {Device_specializeProgram(specializedPrograms, program, argIds,
                                       NewProgram(Len(compiled)))} :
        /\ UNCHANGED auxVars
        /\ r.hit \/ Len(compiled) < MaxCreated
        /\ specializedPrograms' = r.table
        /\ compiled' = Compile(compiled, r, program, argIds)
        /\ lastCall' = Call("specializeProgram", NULL, ProgramKey(program, argIds),
                            r.program, r.hit)
        /\ UNCHANGED <<componentIds, specializedPipelines, issued, retired, frees,
                       created, objVars>>

\* the pipeline keys a client looks up
PipelineKeyInputs ==
    {PipelineKey_updateHash(p, a) : p \in VirtualPipelines, a \in {<<>>, <<1>>, <<2>>}}

\* a client's call of shaderCache.getSpecializedPipeline(key)
GetSpecializedPipeline(key) ==
    \E r \in {ShaderCache_getSpecializedPipeline(specializedPipelines, key)} :
        /\ UNCHANGED auxVars
        /\ lastCall' = Call("getSpecializedPipeline", NULL, key, r, r # NULL)
        /\ UNCHANGED <<cacheVars, objVars>>

\* Device::getConcretePipeline(pipeline, rootObject, outPipeline) for a
\* virtual pipeline, after the root object's specialization arguments c have
\* been collected: look the pipeline key up; on a miss specialize the
\* program, create the concrete pipeline and add it to the cache
GetConcretePipeline_Virtual(pipeline, c) ==
    \E argIds \in {ComponentIDs(c.args)} :
    \E key \in {PipelineKey_updateHash(pipeline, argIds)} :
    \E found \in {ShaderCache_getSpecializedPipeline(specializedPipelines, key)} :
        /\ componentIds' = c.W.ids
        /\ issued' = c.W.log
        /\ IF c.res # SLANG_OK
           THEN /\ lastCall' = Call("getConcretePipeline", pipeline, key, c.res, FALSE)
                /\ UNCHANGED <<specializedPipelines, specializedPrograms, compiled, created>>
           ELSE IF found # NULL
           THEN /\ lastCall' = Call("getConcretePipeline", pipeline, key, found, TRUE)
                /\ UNCHANGED <<specializedPipelines, specializedPrograms, compiled, created>>
           ELSE \E sp \in {Device_specializeProgram(specializedPrograms,
                                Pipeline_m_program(pipeline), argIds,
                                NewProgram(Len(compiled)))} :
                /\ created < MaxCreated
                /\ sp.hit \/ Len(compiled) < MaxCreated
                /\ specializedPrograms' = sp.table
                /\ compiled' = Compile(compiled, sp, Pipeline_m_program(pipeline), argIds)
                /\ specializedPipelines' =
                     ShaderCache_addSpecializedPipeline(specializedPipelines, key,
                                                        NewPipeline(created))
                /\ created' = created + 1
                /\ lastCall' = Call("getConcretePipeline", pipeline, key,
                                    NewPipeline(created), FALSE)

\* Device::getConcretePipeline(pipeline, rootObject, outPipeline)
GetConcretePipeline(pipeline, rootObject) ==
    /\ UNCHANGED auxVars
    /\ Running
    /\ IF ~Pipeline_isVirtual(pipeline)
       THEN /\ lastCall' = Call("getConcretePipeline", pipeline, NULL, pipeline, FALSE)
            /\ UNCHANGED <<cacheVars, objVars>>
       ELSE \E junk \in JunkIds :
            \E c \in {CollectSpecializationArgs(rootObject, <<>>,
                                                World(m_objects, junk), {})} :
            \E crash \in (IF c.W.ub THEN BOOLEAN ELSE {FALSE}) :
               IF crash \/ Stops(c.res)
               THEN /\ halt' = Halt(c.res, crash)
                    /\ lastCall' = Call("getConcretePipeline", pipeline, NULL,
                                        Halt(c.res, crash), FALSE)
                    /\ UNCHANGED <<cacheVars, layoutName, m_state, m_objects,
                                   m_ordinaryData, m_userProvidedSpecializationArgs,
                                   m_structuredBufferSpecializationArgs,
                                   shaderObjectType, m_bindings, assertsEnabled, merged>>
               ELSE /\ GetConcretePipeline_Virtual(pipeline, c)
                    /\ shaderObjectType' = c.W.sot
                    /\ UNCHANGED <<retired, frees, layoutName, m_state, m_objects,
                                   m_ordinaryData, m_userProvidedSpecializationArgs,
                                   m_structuredBufferSpecializationArgs,
                                   m_bindings, assertsEnabled, halt, merged>>

(***************************************************************************)
(* ShaderTable::getOrCreateBuffer, statement by statement, for callers     *)
(* that may or may not serialize their calls.                              *)
(***************************************************************************)
\* the ray-tracing pipelines buffers are asked for, and the callers
RayTracingPipelines == {1, 2}
Callers == {1, 2}

\* how many calls of getOrCreateBuffer are started
MaxCalls == 4

\* a caller's frame outside a call, and what it holds before any call returned
NoFrame == [pipeline |-> NULL, missed |-> FALSE, result |-> NULL]
NoReturn == [pipeline |-> NULL, buffer |-> NULL]

\* A mutated lookup that never finds an entry.
m_deviceBuffers_find_End(table, pipeline) == NULL

\* m_deviceBuffers.find(pipeline): the stored buffer, NULL for end()
m_deviceBuffers_find(table, pipeline) == table[pipeline]

\* m_deviceBuffers.emplace(pipeline, result): inserts unless the key is present
m_deviceBuffers_emplace(table, pipeline, result) ==
    IF table[pipeline] # NULL THEN table ELSE [table EXCEPT ![pipeline] = result]

\* createDeviceBuffer(pipeline), the backend's collaborator: a buffer made by
\* this invocation, the n-th
createDeviceBuffer(pipeline, n) == n

\* A mutated return statement that hands back the stored buffer.
getOrCreateBuffer_return_Stored(result, stored) == stored

\* `return result;`: the buffer this call built
getOrCreateBuffer_return(result, stored) == result

\* a caller enters getOrCreateBuffer(pipeline); serializing callers wait for
\* each other
GetOrCreateBuffer_Begin(c, pipeline) ==
    /\ callerPc[c] = "idle"
    /\ started < MaxCalls
    /\ serialized => \A d \in Callers : callerPc[d] = "idle"
    /\ callerPc' = [callerPc EXCEPT ![c] = "find"]
    /\ callerFrame' = [callerFrame EXCEPT ![c] = [NoFrame EXCEPT !.pipeline = pipeline]]
    /\ started' = started + 1
    /\ UNCHANGED <<m_deviceBuffers, createdBuffers, releasedBuffers, callerReturned,
                   serialized, cacheVars, lastCall, objVars, refVars, extVars>>

\* auto it = find(pipeline); if (it != end()) return it->second.Ptr();
GetOrCreateBuffer_Find(c) ==
    /\ callerPc[c] = "find"
    /\ \E it \in {m_deviceBuffers_find(m_deviceBuffers, callerFrame[c].pipeline)} :
          IF it # NULL
          THEN /\ callerPc' = [callerPc EXCEPT ![c] = "idle"]
               /\ callerReturned' = [callerReturned EXCEPT ![c] =
                     [pipeline |-> callerFrame[c].pipeline, buffer |-> it]]
               /\ lastCall' = Call("getOrCreateBuffer", c, callerFrame[c].pipeline,
                                   it, TRUE)
               /\ UNCHANGED callerFrame
          ELSE /\ callerPc' = [callerPc EXCEPT ![c] = "create"]
               /\ callerFrame' = [callerFrame EXCEPT ![c].missed = TRUE]
               /\ UNCHANGED <<callerReturned, lastCall>>
    /\ UNCHANGED <<m_deviceBuffers, createdBuffers, releasedBuffers, serialized,
                   started, cacheVars, objVars, refVars, extVars>>

\* auto result = createDeviceBuffer(pipeline);
GetOrCreateBuffer_Create(c) ==
    /\ callerPc[c] = "create"
    /\ createdBuffers' = Append(createdBuffers, callerFrame[c].pipeline)
    /\ callerFrame' = [callerFrame EXCEPT ![c].result =
           createDeviceBuffer(callerFrame[c].pipeline, Len(createdBuffers) + 1)]
    /\ callerPc' = [callerPc EXCEPT ![c] = "emplace"]
    /\ UNCHANGED <<m_deviceBuffers, releasedBuffers, callerReturned, serialized,
                   started, cacheVars, lastCall, objVars, refVars, extVars>>

\* m_deviceBuffers.emplace(pipeline, result);
GetOrCreateBuffer_Emplace(c) ==
    /\ callerPc[c] = "emplace"
    /\ m_deviceBuffers' = m_deviceBuffers_emplace(m_deviceBuffers,
                              callerFrame[c].pipeline, callerFrame[c].result)
    /\ callerPc' = [callerPc EXCEPT ![c] = "return"]
    /\ UNCHANGED <<createdBuffers, releasedBuffers, callerFrame, callerReturned,
                   serialized, started, cacheVars, lastCall, objVars, refVars, extVars>>

\* return result; the local RefPtr goes out of scope, and a buffer the table
\* did not take loses its last reference
GetOrCreateBuffer_Return(c) ==
    /\ callerPc[c] = "return"
    /\ \E ret \in {getOrCreateBuffer_return(callerFrame[c].result,
                        m_deviceBuffers[callerFrame[c].pipeline])} :
          /\ callerReturned' = [callerReturned EXCEPT ![c] =
                [pipeline |-> callerFrame[c].pipeline, buffer |-> ret]]
          /\ lastCall' = Call("getOrCreateBuffer", c, callerFrame[c].pipeline,
                              ret, FALSE)
    /\ releasedBuffers' =
          (IF m_deviceBuffers[callerFrame[c].pipeline] # callerFrame[c].result
           THEN releasedBuffers \cup {callerFrame[c].result} ELSE releasedBuffers)
    /\ callerPc' = [callerPc EXCEPT ![c] = "idle"]
    /\ UNCHANGED <<m_deviceBuffers, createdBuffers, callerFrame, serialized,
                   started, cacheVars, objVars, refVars, extVars>>

\* a shader table on which getOrCreateBuffer has not been called
InitShaderTable(serial) ==
    /\ m_deviceBuffers = [p \in RayTracingPipelines |-> NULL]
    /\ createdBuffers = <<>>
    /\ releasedBuffers = {}
    /\ callerPc = [c \in Callers |-> "idle"]
    /\ callerFrame = [c \in Callers |-> NoFrame]
    /\ callerReturned = [c \in Callers |-> NoReturn]
    /\ serialized = serial
    /\ started = 0

(***************************************************************************)
(* A device and the resources created from it: public and internal         *)
(* reference counts, and the resources' breakable references to the device.*)
(***************************************************************************)
TheDevice == 1
Resources == {2, 3}
RefObjects == {TheDevice} \cup Resources

\* a device and its resources as the user received them: one public
\* reference each, and every resource referencing the device strongly
InitReferences ==
    /\ comRefCount = [x \in RefObjects |-> 1]
    /\ referenceCount = [x \in RefObjects |->
                            IF x = TheDevice THEN 1 + Cardinality(Resources) ELSE 1]
    /\ m_device = [r \in Resources |-> [m_strongPtr |-> TheDevice, m_weakPtr |-> TheDevice]]
    /\ m_currentResource = NULL
    /\ destroyLog = <<>>
    /\ dtorDevice = [r \in Resources |-> "notrun"]
    /\ zeroLog = <<>>

\* how many public references the user holds to one object
MaxPublic == 2

\* BreakableReference::operator=(T* p)
BreakableReference_assign(p) == [m_strongPtr |-> p, m_weakPtr |-> p]

\* A mutated get that goes through the strong pointer.
BreakableReference_get_Strong(b) == b.m_strongPtr

\* BreakableReference::get()
BreakableReference_get(b) == b.m_weakPtr

\* A mutated breakStrongReference that keeps the strong pointer.
BreakableReference_breakStrongReference_Keep(b) == b

\* BreakableReference::breakStrongReference()
BreakableReference_breakStrongReference(b) == [b EXCEPT !.m_strongPtr = NULL]

\* the reference counts and members one release works on; device is "alive",
\* "destructing" (its destructor is running) or "freed"
Heap ==
    [rc |-> referenceCount, dev |-> m_device, cur |-> m_currentResource,
     log |-> destroyLog, dtor |-> dtorDevice,
     device |-> IF \E n \in 1..Len(destroyLog) : destroyLog[n] = TheDevice
                THEN "freed" ELSE "alive"]

RECURSIVE releaseReference(_, _)
RECURSIVE Destroy(_, _)

\* ~RefPtr / RefPtr = nullptr on a pointer to x: the count drops, and the
\* object whose count reaches zero is destroyed
releaseReference(H, x) ==
    IF H.rc[x] > 1 THEN [H EXCEPT !.rc[x] = @ - 1]
    ELSE Destroy([H EXCEPT !.rc[x] = 0], x)

\* the destructor of x and of its members: the device drops its reference to
\* the resource it tracks; a resource drops the strong pointer of its
\* m_device, if it still holds one, after its own destructor ran
Destroy(H, x) ==
    IF x = TheDevice
    THEN The({[h EXCEPT !.device = "freed"] :
                h \in {IF H.cur = NULL
                       THEN [H EXCEPT !.device = "destructing",
                                      !.log = Append(@, TheDevice)]
                       ELSE releaseReference(
                               [H EXCEPT !.device = "destructing",
                                         !.log = Append(@, TheDevice),
                                         !.cur = NULL], H.cur)}})
    ELSE The({IF H.dev[x].m_strongPtr = NULL THEN h
              ELSE releaseReference(
                      [h EXCEPT !.dev[x] = BreakableReference_breakStrongReference(@)],
                      H.dev[x].m_strongPtr) :
                h \in {[H EXCEPT !.dtor[x] = H.device, !.log = Append(@, x)]}})

\* A mutated comFree that leaves the reference to the device alone.
comFree_NoBreak(H, x) == H

\* comFree(): a resource breaks its strong reference to the device (the
\* RefPtr it held is released); the device has nothing to break
comFree(H, x) ==
    IF x = TheDevice THEN H
    ELSE The({IF H.dev[x].m_strongPtr # NULL /\ b.m_strongPtr = NULL
              THEN releaseReference([H EXCEPT !.dev[x] = b], H.dev[x].m_strongPtr)
              ELSE [H EXCEPT !.dev[x] = b] :
                b \in {BreakableReference_breakStrongReference(H.dev[x])}})

\* ComObject::release() when the public count reaches zero: comFree(), then
\* the internal reference the public references stood for is released
ComObject_releaseLast(H, x) ==
    The({releaseReference(h, x) : h \in {comFree(H, x)}})

\* the user copies a ComPtr to x
UserAddRef(x) ==
    /\ comRefCount[x] >= 1
    /\ comRefCount[x] < MaxPublic
    /\ comRefCount' = [comRefCount EXCEPT ![x] = @ + 1]
    /\ lastCall' = Call("addRef", x, NULL, SLANG_OK, FALSE)
    /\ UNCHANGED <<referenceCount, m_device, m_currentResource, destroyLog,
                   dtorDevice, zeroLog, cacheVars, objVars, tableVars, extVars>>

\* the user drops a ComPtr to x
UserRelease(x) ==
    /\ comRefCount[x] >= 1
    /\ comRefCount' = [comRefCount EXCEPT ![x] = @ - 1]
    /\ lastCall' = Call("release", x, NULL, SLANG_OK, FALSE)
    /\ IF comRefCount[x] > 1
       THEN UNCHANGED <<referenceCount, m_device, m_currentResource, destroyLog,
                        dtorDevice, zeroLog>>
       ELSE \E h \in {ComObject_releaseLast(Heap, x)} :
               /\ referenceCount' = h.rc
               /\ m_device' = h.dev
               /\ m_currentResource' = h.cur
               /\ destroyLog' = h.log
               /\ dtorDevice' = h.dtor
               /\ zeroLog' = Append(zeroLog, [obj |-> x, current |-> m_currentResource])
    /\ UNCHANGED <<cacheVars, objVars, tableVars, extVars>>

\* the device starts tracking resource r as current state:
\* device->m_currentResource = r
SetCurrentResource(r) ==
    /\ comRefCount[TheDevice] >= 1
    /\ comRefCount[r] >= 1
    /\ m_currentResource # r
    /\ \E h \in {IF m_currentResource = NULL
                  THEN [Heap EXCEPT !.rc[r] = @ + 1, !.cur = r]
                  ELSE releaseReference([Heap EXCEPT !.rc[r] = @ + 1, !.cur = r],
                                        m_currentResource)} :
          /\ referenceCount' = h.rc
          /\ m_device' = h.dev
          /\ m_currentResource' = h.cur
          /\ destroyLog' = h.log
          /\ dtorDevice' = h.dtor
    /\ lastCall' = Call("setCurrentResource", r, NULL, SLANG_OK, FALSE)
    /\ UNCHANGED <<comRefCount, zeroLog, cacheVars, objVars, tableVars, extVars>>

(***************************************************************************)
(* A BreakableReference on its own: the calls of its interface, and the    *)
(* other owners of the objects it may point at.                            *)
(***************************************************************************)
Targets == {1, 2}

\* how many references the other owners hold to one object
MaxOwners == 2

\* BreakableReference() = default: no target; every object has one owner, the
\* one that created it
InitBreakable ==
    /\ breakable = [m_strongPtr |-> NULL, m_weakPtr |-> NULL]
    /\ targetCount = [t \in Targets |-> 1]
    /\ otherOwners = [t \in Targets |-> 1]
    /\ misuse = FALSE

\* no command queue was created
NoQueue ==
    [state |-> "none", comRefCount |-> 0, referenceCount |-> 0,
     established |-> 0, demotions |-> 0, dtorStrong |-> FALSE]

\* no call of _unwrapParameterGroups is under way
NoUnwrap ==
    [pc |-> "idle", input |-> <<>>, typeLayout |-> <<>>,
     outContainerType |-> "None", passes |-> 0, assertFailed |-> FALSE]

\* BufferImpl::BufferImpl(device, desc): a buffer that nobody has mapped
NewBuffer ==
    [m_isMapped |-> FALSE, nativeMapped |-> FALSE, pending |-> 0,
     maps |-> 0, unmaps |-> 0]

\* neither readBuffer nor createBuffer has been called
NoTransfer ==
    [fn |-> "none", log |-> <<>>, res |-> SLANG_OK, held |-> FALSE,
     m_mapMode |-> "unset"]

InitExt ==
    /\ InitBreakable
    /\ queue = NoQueue
    /\ failingTypes = {}
    /\ unwrap = NoUnwrap
    /\ buffer = NewBuffer
    /\ transfer = NoTransfer

\* RefPtr<T>::operator=: the counts after a RefPtr holding old is made to
\* hold new (the new object is acquired, then the old one is released)
RefPtr_assign(count, old, new) ==
    [t \in Targets |-> count[t] + (IF t = new THEN 1 ELSE 0)
                                - (IF t = old THEN 1 ELSE 0)]

\* A mutated setWeakReference that keeps the strong pointer.
BreakableReference_setWeakReference_KeepStrong(b, p) == [b EXCEPT !.m_weakPtr = p]

\* BreakableReference::setWeakReference(T* p)
BreakableReference_setWeakReference(b, p) == [m_strongPtr |-> NULL, m_weakPtr |-> p]

\* A mutated establishStrongReference that leaves the reference as it is.
BreakableReference_establishStrongReference_Skip(b) == b

\* BreakableReference::establishStrongReference()
BreakableReference_establishStrongReference(b) == [b EXCEPT !.m_strongPtr = b.m_weakPtr]

\* the reference and the counts one call works on
Refs == [ref |-> breakable, count |-> targetCount, misuse |-> misuse]

\* the outcomes of making the RefPtr of R.ref hold the strong pointer of b:
\* acquiring a destroyed object is undefined, and leaves any count behind
Rebind(R, b) ==
    IF b.m_strongPtr # NULL /\ b.m_strongPtr # R.ref.m_strongPtr
          /\ R.count[b.m_strongPtr] = 0
    THEN {[ref |-> b, count |-> [R.count EXCEPT ![b.m_strongPtr] = junk],
           misuse |-> TRUE] : junk \in 0..1}
    ELSE {[ref |-> b,
           count |-> RefPtr_assign(R.count, R.ref.m_strongPtr, b.m_strongPtr),
           misuse |-> R.misuse]}

\* the four calls of the interface, as outcomes
Refs_assign(R, p) == Rebind(R, BreakableReference_assign(p))
Refs_setWeakReference(R, p) == Rebind(R, BreakableReference_setWeakReference(R.ref, p))
Refs_breakStrongReference(R) == Rebind(R, BreakableReference_breakStrongReference(R.ref))
Refs_establishStrongReference(R) ==
    Rebind(R, BreakableReference_establishStrongReference(R.ref))

\* the objects a caller can pass: none, or one that exists
Live == {t \in Targets : targetCount[t] > 0}

\* one call on the reference took place with outcome r; the call before it
\* is kept with the call
Referenced(op, p, r) ==
    /\ breakable' = r.ref
    /\ targetCount' = r.count
    /\ misuse' = r.misuse
    /\ lastCall' = Call(op, p, lastCall.op, SLANG_OK, FALSE)
    /\ UNCHANGED <<otherOwners, queue, cacheVars, objVars, tableVars, refVars, restVars>>

\* m_device = p
Assign(p) ==
    /\ ~misuse
    /\ \E r \in Refs_assign(Refs, p) : Referenced("assign", p, r)

\* m_device.setWeakReference(p)
SetWeakReference(p) ==
    /\ ~misuse
    /\ \E r \in Refs_setWeakReference(Refs, p) : Referenced("setWeakReference", p, r)

\* m_device.breakStrongReference()
BreakStrongReference ==
    /\ ~misuse
    /\ \E r \in Refs_breakStrongReference(Refs) :
          Referenced("breakStrongReference", NULL, r)

\* m_device.establishStrongReference()
EstablishStrongReference ==
    /\ ~misuse
    /\ \E r \in Refs_establishStrongReference(Refs) :
          Referenced("establishStrongReference", NULL, r)

\* another owner copies its reference to t
OtherAcquire(t) ==
    /\ ~misuse
    /\ otherOwners[t] >= 1
    /\ otherOwners[t] < MaxOwners
    /\ otherOwners' = [otherOwners EXCEPT ![t] = @ + 1]
    /\ targetCount' = [targetCount EXCEPT ![t] = @ + 1]
    /\ lastCall' = Call("acquire", t, lastCall.op, SLANG_OK, FALSE)
    /\ UNCHANGED <<breakable, misuse, queue, cacheVars, objVars, tableVars, refVars, restVars>>

\* another owner drops a reference to t
OtherRelease(t) ==
    /\ ~misuse
    /\ otherOwners[t] >= 1
    /\ otherOwners' = [otherOwners EXCEPT ![t] = @ - 1]
    /\ targetCount' = [targetCount EXCEPT ![t] = @ - 1]
    /\ lastCall' = Call("drop", t, lastCall.op, SLANG_OK, FALSE)
    /\ UNCHANGED <<breakable, misuse, queue, cacheVars, objVars, tableVars, refVars, restVars>>

(***************************************************************************)
(* The command queue of a device: the device creates it and keeps it, and  *)
(* hands it to the user; the reference is the queue's m_device.            *)
(***************************************************************************)

\* how often the device establishes the queue's strong reference
MaxEstablish == 2

\* CommandQueue(TDevice* device, QueueType type)
CommandQueue_ctor(R, device) == Refs_setWeakReference(R, device)

\* A mutated comFree that leaves the reference to the device alone.
CommandQueue_comFree_NoBreak(R) == {R}

\* CommandQueue::comFree(): breakStrongReferenceToDevice()
CommandQueue_comFree(R) == Refs_breakStrongReference(R)

\* the queue after the counts of the device changed from before to after: a
\* device whose count reached zero is destroyed and drops its reference to the
\* queue
DeviceGone(q, before, after) ==
    IF before[TheDevice] > 0 /\ after[TheDevice] = 0 /\ q.state = "alive"
    THEN [q EXCEPT !.referenceCount = @ - 1] ELSE q

\* the queue after one of its references went away: at zero its destructor
\* runs, and finds the reference to the device strong or weak
QueueReleased(q, b) ==
    IF q.referenceCount > 1 THEN [q EXCEPT !.referenceCount = @ - 1]
    ELSE [q EXCEPT !.referenceCount = 0, !.state = "destroyed",
                   !.dtorStrong = (b.m_strongPtr # NULL)]

\* one more demotion, if the reference went from strong to weak
Demoted(q, before, after) ==
    IF before.m_strongPtr # NULL /\ after.m_strongPtr = NULL
    THEN [q EXCEPT !.demotions = @ + 1] ELSE q

\* the device creates its queue and keeps a reference to it
CreateCommandQueue ==
    /\ ~misuse
    /\ queue.state = "none"
    /\ targetCount[TheDevice] > 0
    /\ \E r \in CommandQueue_ctor(Refs, TheDevice) :
          /\ breakable' = r.ref
          /\ targetCount' = r.count
          /\ misuse' = r.misuse
    /\ queue' = [queue EXCEPT !.state = "alive", !.referenceCount = 1]
    /\ lastCall' = Call("CommandQueue", TheDevice, lastCall.op, SLANG_OK, FALSE)
    /\ UNCHANGED <<otherOwners, cacheVars, objVars, tableVars, refVars, restVars>>

\* queue->establishStrongReferenceToDevice(), called by the device
EstablishStrongReferenceToDevice ==
    /\ ~misuse
    /\ queue.state = "alive"
    /\ queue.established < MaxEstablish
    /\ targetCount[TheDevice] > 0
    /\ \E r \in Refs_establishStrongReference(Refs) :
          /\ breakable' = r.ref
          /\ targetCount' = r.count
          /\ misuse' = r.misuse
    /\ queue' = [queue EXCEPT !.established = @ + 1]
    /\ lastCall' = Call("establishStrongReferenceToDevice", TheDevice, lastCall.op,
                        SLANG_OK, FALSE)
    /\ UNCHANGED <<otherOwners, cacheVars, objVars, tableVars, refVars, restVars>>

\* a public reference to the queue is made: the device returns the queue, or
\* the user copies a ComPtr; the first public reference holds one internal
\* reference
QueueAddRef ==
    /\ ~misuse
    /\ queue.state = "alive"
    /\ queue.comRefCount < MaxPublic
    /\ queue.comRefCount = 0 => targetCount[TheDevice] > 0
    /\ queue' = [queue EXCEPT !.comRefCount = @ + 1,
                              !.referenceCount =
                                  IF queue.comRefCount = 0 THEN @ + 1 ELSE @]
    /\ lastCall' = Call("addRefQueue", TheDevice, lastCall.op, SLANG_OK, FALSE)
    /\ UNCHANGED <<breakable, targetCount, otherOwners, misuse,
                   cacheVars, objVars, tableVars, refVars, restVars>>

\* the user drops a public reference to the queue: at zero comFree() runs,
\* then the internal reference the public references stood for is released
QueueRelease ==
    /\ ~misuse
    /\ queue.state = "alive"
    /\ queue.comRefCount >= 1
    /\ IF queue.comRefCount > 1
       THEN /\ queue' = [queue EXCEPT !.comRefCount = @ - 1]
            /\ UNCHANGED <<breakable, targetCount, misuse>>
       ELSE \E r \in CommandQueue_comFree(Refs) :
               /\ breakable' = r.ref
               /\ targetCount' = r.count
               /\ misuse' = r.misuse
               /\ queue' = QueueReleased(
                              DeviceGone(
                                 Demoted([queue EXCEPT !.comRefCount = 0],
                                         breakable, r.ref),
                                 targetCount, r.count),
                              r.ref)
    /\ lastCall' = Call("releaseQueue", TheDevice, lastCall.op, SLANG_OK, FALSE)
    /\ UNCHANGED <<otherOwners, cacheVars, objVars, tableVars, refVars, restVars>>

\* the user drops a public reference to the device: a device without
\* references is destroyed and drops its reference to the queue
DeviceRelease ==
    /\ ~misuse
    /\ otherOwners[TheDevice] >= 1
    /\ otherOwners' = [otherOwners EXCEPT ![TheDevice] = @ - 1]
    /\ targetCount' = [targetCount EXCEPT ![TheDevice] = @ - 1]
    /\ queue' = IF targetCount'[TheDevice] = 0 /\ queue.state = "alive"
                THEN QueueReleased(queue, breakable) ELSE queue
    /\ lastCall' = Call("releaseDevice", TheDevice, lastCall.op, SLANG_OK, FALSE)
    /\ UNCHANGED <<breakable, misuse, cacheVars, objVars, tableVars, refVars, restVars>>

(***************************************************************************)
(* ShaderObjectLayout::_unwrapParameterGroups, pass by pass of its loop,   *)
(* on the type layouts the reflection may hand in.                         *)
(***************************************************************************)

\* how deep the type layouts are nested
MaxDepth == 2

\* how many passes of the loop are followed
MaxPasses == 4

\* slang::TypeLayoutReflection: its kind (None without a type), its resource
\* shape, whether getType() is non-null, and getElementTypeLayout() (empty
\* for null)
TypeLayoutReflection(kind, shape, hasType, element) ==
    [kind |-> kind, shape |-> shape, hasType |-> hasType, element |-> element]

\* the layouts that wrap nothing: a struct, a texture, a layout without type
LeafLayouts ==
    {TypeLayoutReflection("Struct", "None", TRUE, <<>>),
     TypeLayoutReflection("Resource", "Texture2D", TRUE, <<>>),
     TypeLayoutReflection("None", "None", FALSE, <<>>)}

\* the layouts around element layout e: an array, a structured buffer, a
\* constant buffer, a parameter block, and a group without a type of its own
WrapLayouts(e) ==
    {TypeLayoutReflection("Array", "None", TRUE, <<e>>),
     TypeLayoutReflection("Resource", "StructuredBuffer", TRUE, <<e>>),
     TypeLayoutReflection("ConstantBuffer", "None", TRUE, <<e>>),
     TypeLayoutReflection("ParameterBlock", "None", TRUE, <<e>>),
     TypeLayoutReflection("None", "None", FALSE, <<e>>)}

RECURSIVE LayoutsUpTo(_)
\* the type layouts nested at most d deep
LayoutsUpTo(d) ==
    IF d = 0 THEN LeafLayouts
    ELSE LayoutsUpTo(d - 1) \cup UNION {WrapLayouts(e) : e \in LayoutsUpTo(d - 1)}

\* the start of the loop body: a layout without a type is replaced by its
\* element layout, if it has one
TypelessElement(t) ==
    IF ~t.hasType /\ t.element # <<>> THEN t.element[1] ELSE t

\* the function has returned typeLayout with this container type; the
\* condition of the assertion before the assignment is looked at
Unwrap_return(u, containerType, typeLayout) ==
    [u EXCEPT !.pc = "done",
              !.assertFailed = @ \/ u.outContainerType # "None",
              !.outContainerType = containerType,
              !.typeLayout = <<typeLayout>>,
              !.passes = @ + 1]

\* one pass of the body of for (;;) in _unwrapParameterGroups
unwrapParameterGroups_pass(u) ==
    LET t == TypelessElement(u.typeLayout[1])
    IN  IF t.kind = "Array"
        THEN Unwrap_return(u, "Array", t.element[1])
        ELSE IF t.kind = "Resource" /\ t.shape # "StructuredBuffer"
        \* break leaves the switch, and the loop starts over
        THEN [u EXCEPT !.typeLayout = <<t>>, !.passes = @ + 1]
        ELSE IF t.kind = "Resource"
        THEN Unwrap_return(u, "StructuredBuffer", t.element[1])
        ELSE IF t.kind \in {"ConstantBuffer", "ParameterBlock"}
        THEN [u EXCEPT !.typeLayout = t.element, !.passes = @ + 1]
        ELSE [u EXCEPT !.pc = "done", !.typeLayout = <<t>>, !.passes = @ + 1]

\* _unwrapParameterGroups(typeLayout, outContainerType) up to its loop
Unwrap_begin(typeLayout) ==
    [pc |-> "loop", input |-> <<typeLayout>>, typeLayout |-> <<typeLayout>>,
     outContainerType |-> "None", passes |-> 0, assertFailed |-> FALSE]

\* the call makes one more pass
Unwrap_Pass ==
    /\ unwrap.pc = "loop"
    /\ unwrap.passes < MaxPasses
    /\ unwrap' = unwrapParameterGroups_pass(unwrap)
    /\ lastCall' = Call("_unwrapParameterGroups", NULL, NULL, SLANG_OK, FALSE)
    /\ UNCHANGED <<cacheVars, objVars, tableVars, refVars, brVars, failingTypes,
                   buffer, transfer>>

(***************************************************************************)
(* BufferImpl::map / unmap of the wgpu backend.  wgpuBufferMapAsync hands  *)
(* the callback to the native API, which runs it with a status of its      *)
(* choice inside that call or at any later time.                           *)
(***************************************************************************)

\* how many map callbacks the native API holds at once
MaxPending == 2

\* how many map() and unmap() calls are followed
MaxMapCalls == 4

\* WGPUBufferMapAsyncStatus: success, or any of the failures
MapStatuses == {"Success", "Error"}

\* the callback of map(): m_isMapped follows the status; on success the
\* native buffer is mapped
BufferImpl_mapCallback(b, status) ==
    [b EXCEPT !.m_isMapped = (status = "Success"),
              !.nativeMapped = @ \/ status = "Success",
              !.pending = @ - 1]

RECURSIVE DeliverCallbacks(_, _)
\* the native API runs the callbacks it holds, oldest first, with these
\* statuses
DeliverCallbacks(b, statuses) ==
    IF statuses = <<>> THEN b
    ELSE DeliverCallbacks(BufferImpl_mapCallback(b, Head(statuses)), Tail(statuses))

\* the statuses of the callbacks the native API may run at one time, when it
\* holds n of them
Deliveries(n) == UNION {[1..d -> MapStatuses] : d \in 0..n}

\* BufferImpl::map(rangeToRead, outPointer), the native API running the
\* callbacks with these statuses inside wgpuBufferMapAsync
BufferImpl_map(b, statuses) ==
    IF b.m_isMapped THEN [res |-> SLANG_FAIL, buffer |-> b]
    ELSE The({IF ~c.m_isMapped THEN [res |-> SLANG_FAIL, buffer |-> c]
              ELSE [res |-> SLANG_OK, buffer |-> [c EXCEPT !.maps = @ + 1]] :
                 c \in {DeliverCallbacks([b EXCEPT !.pending = @ + 1], statuses)}})

\* BufferImpl::unmap(writtenRange)
BufferImpl_unmap(b) ==
    IF ~b.m_isMapped THEN [res |-> SLANG_FAIL, buffer |-> b]
    ELSE [res |-> SLANG_OK,
          buffer |-> [b EXCEPT !.m_isMapped = FALSE, !.nativeMapped = FALSE,
                               !.unmaps = @ + 1]]

\* the calls made on the buffer so far are fewer than are followed
MoreMapCalls == buffer.maps + buffer.unmaps < MaxMapCalls

\* a client's call of map(); arg tells whether m_isMapped was set on entry
Map ==
    /\ MoreMapCalls
    /\ buffer.pending < MaxPending
    /\ \E statuses \in Deliveries(buffer.pending + 1) :
       \E r \in {BufferImpl_map(buffer, statuses)} :
          /\ buffer' = r.buffer
          /\ lastCall' = Call("map", NULL, buffer.m_isMapped, r.res, FALSE)
    /\ UNCHANGED <<cacheVars, objVars, tableVars, refVars, brVars, failingTypes, unwrap,
                   transfer>>

\* a client's call of unmap(); arg tells whether m_isMapped was set on entry
Unmap ==
    /\ MoreMapCalls
    /\ \E r \in {BufferImpl_unmap(buffer)} :
          /\ buffer' = r.buffer
          /\ lastCall' = Call("unmap", NULL, buffer.m_isMapped, r.res, FALSE)
    /\ UNCHANGED <<cacheVars, objVars, tableVars, refVars, brVars, failingTypes, unwrap,
                   transfer>>

\* the native API runs the oldest callback it holds, outside any call of the
\* client on the buffer
MapCallback(status) ==
    /\ buffer.pending > 0
    /\ buffer' = BufferImpl_mapCallback(buffer, status)
    /\ lastCall' = Call("mapCallback", NULL, status, SLANG_OK, FALSE)
    /\ UNCHANGED <<cacheVars, objVars, tableVars, refVars, brVars, failingTypes, unwrap,
                   transfer>>

(***************************************************************************)
(* DeviceImpl::readBuffer and DeviceImpl::createBuffer of the wgpu backend. *)
(* Each call is followed as the sequence of calls it makes on the native   *)
(* API; what the native API answers (a null object, the status a callback  *)
(* brings, the number of wgpuDeviceTick calls before the callback runs) is *)
(* the input.  A wait whose callback never runs does not return and is not *)
(* followed.                                                               *)
(***************************************************************************)
\* the most wgpuDeviceTick calls one wait is followed for
MaxTicks == 2

\* MemoryType of a BufferDesc
MemoryTypes == {"DeviceLocal", "Upload", "ReadBack"}

\* WGPUQueueWorkDoneStatus: success, or any of the failures
QueueWorkDoneStatuses == {"Success", "Error"}

\* what the native API answers during one call
NativeOutcomes ==
    [dest : BOOLEAN, staging : BOOLEAN, encoder : BOOLEAN,
     commandBuffer : BOOLEAN, data : BOOLEAN,
     workDone : QueueWorkDoneStatuses, workTicks : 0..MaxTicks,
     mapStatus : MapStatuses, mapTicks : 0..MaxTicks]

\* one call on the native API and the native object it is made on or returns
Ev(call, obj) == <<call, obj>>

\* a call of the native API that returns an object, or null
NativeResult(call, obj, ok) == <<Ev(call, IF ok THEN obj ELSE "null")>>

\* a request with a callback, and the loop that calls wgpuDeviceTick until
\* the callback has stored a status
Wait(call, obj, callback, ticks, status) ==
    <<Ev(call, obj)>> \o [i \in 1..ticks |-> Ev("wgpuDeviceTick", "device")]
        \o <<Ev(callback, status)>>

\* the native call that creates an object, and the one that releases it
CreateCall(obj) ==
    CASE obj = "encoder" -> Ev("wgpuDeviceCreateCommandEncoder", obj)
      [] obj = "commandBuffer" -> Ev("wgpuCommandEncoderFinish", obj)
      [] OTHER -> Ev("wgpuDeviceCreateBuffer", obj)

ReleaseCall(obj) ==
    CASE obj = "encoder" -> Ev("wgpuCommandEncoderRelease", obj)
      [] obj = "commandBuffer" -> Ev("wgpuCommandBufferRelease", obj)
      [] OTHER -> Ev("wgpuBufferRelease", obj)

UnmapCall == Ev("wgpuBufferUnmap", "staging")

\* SLANG_RHI_DEFERRED: the blocks registered in a scope run when the scope
\* is left, the last one registered first
RunDeferred(deferred) == [i \in 1..Len(deferred) |-> deferred[Len(deferred) + 1 - i]]

\* BufferImpl::~BufferImpl
BufferImpl_dtor_Leak(m_buffer) == <<>>

BufferImpl_dtor(m_buffer) ==
    IF m_buffer THEN <<ReleaseCall("dest")>> ELSE <<>>

\* a return of readBuffer: the deferred blocks run
readBuffer_return(log, deferred, res) ==
    [fn |-> "readBuffer", log |-> log \o RunDeferred(deferred), res |-> res,
     held |-> FALSE, m_mapMode |-> "unset"]

\* the calls of readBuffer up to each of its tests
readBuffer_staging(n) ==
    NativeResult("wgpuDeviceCreateBuffer", "staging", n.staging)

readBuffer_encoder(n) ==
    readBuffer_staging(n)
        \o NativeResult("wgpuDeviceCreateCommandEncoder", "encoder", n.encoder)

readBuffer_commandBuffer(n) ==
    readBuffer_encoder(n)
        \o <<Ev("wgpuCommandEncoderCopyBufferToBuffer", "encoder")>>
        \o NativeResult("wgpuCommandEncoderFinish", "commandBuffer", n.commandBuffer)

readBuffer_workDone(n) ==
    readBuffer_commandBuffer(n)
        \o <<Ev("wgpuDeviceGetQueue", "queue"), Ev("wgpuQueueSubmit", "commandBuffer")>>
        \o Wait("wgpuQueueOnSubmittedWorkDone", "queue", "workDoneCallback",
                n.workTicks, n.workDone)

readBuffer_map(n) ==
    readBuffer_workDone(n)
        \o Wait("wgpuBufferMapAsync", "staging", "mapCallback", n.mapTicks, n.mapStatus)

readBuffer_range(n) ==
    readBuffer_map(n) \o NativeResult("wgpuBufferGetConstMappedRange", "data", n.data)

\* DeviceImpl::readBuffer(buffer, offset, size, outBlob)
DeviceImpl_readBuffer(n) ==
    IF ~n.staging THEN readBuffer_return(readBuffer_staging(n), <<>>, SLANG_FAIL)
    ELSE IF ~n.encoder
    THEN readBuffer_return(readBuffer_encoder(n), <<ReleaseCall("staging")>>, SLANG_FAIL)
    ELSE IF ~n.commandBuffer
    THEN readBuffer_return(readBuffer_commandBuffer(n),
                           <<ReleaseCall("staging"), ReleaseCall("encoder")>>, SLANG_FAIL)
    ELSE IF n.workDone # "Success"
    THEN readBuffer_return(readBuffer_workDone(n),
                           <<ReleaseCall("staging"), ReleaseCall("encoder"),
                             ReleaseCall("commandBuffer")>>, SLANG_FAIL)
    ELSE IF n.mapStatus # "Success"
    THEN readBuffer_return(readBuffer_map(n),
                           <<ReleaseCall("staging"), ReleaseCall("encoder"),
                             ReleaseCall("commandBuffer")>>, SLANG_FAIL)
    ELSE readBuffer_return(readBuffer_range(n),
                           <<ReleaseCall("staging"), ReleaseCall("encoder"),
                             ReleaseCall("commandBuffer"), UnmapCall>>,
                           IF n.data THEN SLANG_OK ELSE SLANG_FAIL)

\* buffer->m_mapMode as createBuffer leaves it
createBuffer_mapMode(memoryType) ==
    CASE memoryType = "Upload" -> "Write"
      [] memoryType = "ReadBack" -> "Read"
      [] OTHER -> "unset"

\* a return of createBuffer: the deferred blocks run, then the local
\* RefPtr<BufferImpl> drops its reference, which destroys the buffer unless
\* returnComPtr has handed it out
createBuffer_return(log, deferred, res, m_buffer, memoryType) ==
    [fn |-> "createBuffer",
     log |-> log \o RunDeferred(deferred)
                 \o (IF res = SLANG_OK THEN <<>> ELSE BufferImpl_dtor(m_buffer)),
     res |-> res, held |-> (res = SLANG_OK),
     m_mapMode |-> createBuffer_mapMode(memoryType)]

\* the calls of createBuffer up to each of its tests
createBuffer_dest(n) == NativeResult("wgpuDeviceCreateBuffer", "dest", n.dest)

createBuffer_staging(n) ==
    createBuffer_dest(n) \o NativeResult("wgpuDeviceCreateBuffer", "staging", n.staging)

createBuffer_map(n) ==
    createBuffer_staging(n)
        \o Wait("wgpuBufferMapAsync", "staging", "mapCallback", n.mapTicks, n.mapStatus)

createBuffer_range(n) ==
    createBuffer_map(n)
        \o NativeResult("wgpuBufferGetMappedRange", "data", n.data) \o <<UnmapCall>>

createBuffer_encoder(n) ==
    createBuffer_range(n)
        \o NativeResult("wgpuDeviceCreateCommandEncoder", "encoder", n.encoder)

createBuffer_commandBuffer(n) ==
    createBuffer_encoder(n)
        \o <<Ev("wgpuCommandEncoderCopyBufferToBuffer", "encoder")>>
        \o NativeResult("wgpuCommandEncoderFinish", "commandBuffer", n.commandBuffer)

createBuffer_workDone(n) ==
    createBuffer_commandBuffer(n)
        \o <<Ev("wgpuDeviceGetQueue", "queue"), Ev("wgpuQueueSubmit", "commandBuffer")>>
        \o Wait("wgpuQueueOnSubmittedWorkDone", "queue", "workDoneCallback",
                n.workTicks, n.workDone)

\* DeviceImpl::createBuffer(desc, initData, outBuffer)
DeviceImpl_createBuffer(memoryType, initData, n) ==
    IF ~n.dest
    THEN createBuffer_return(createBuffer_dest(n), <<>>, SLANG_FAIL, FALSE, memoryType)
    ELSE IF ~initData
    THEN createBuffer_return(createBuffer_dest(n), <<>>, SLANG_OK, TRUE, memoryType)
    ELSE IF ~n.staging
    THEN createBuffer_return(createBuffer_staging(n), <<>>, SLANG_FAIL, TRUE, memoryType)
    ELSE IF n.mapStatus # "Success"
    THEN createBuffer_return(createBuffer_map(n), <<ReleaseCall("staging")>>,
                             SLANG_FAIL, TRUE, memoryType)
    ELSE IF ~n.data
    THEN createBuffer_return(createBuffer_range(n), <<ReleaseCall("staging")>>,
                             SLANG_FAIL, TRUE, memoryType)
    ELSE IF ~n.encoder
    THEN createBuffer_return(createBuffer_encoder(n), <<ReleaseCall("staging")>>,
                             SLANG_FAIL, TRUE, memoryType)
    ELSE IF ~n.commandBuffer
    THEN createBuffer_return(createBuffer_commandBuffer(n),
                             <<ReleaseCall("staging"), ReleaseCall("encoder")>>,
                             SLANG_FAIL, TRUE, memoryType)
    ELSE createBuffer_return(createBuffer_workDone(n),
                             <<ReleaseCall("staging"), ReleaseCall("encoder"),
                               ReleaseCall("commandBuffer")>>,
                             IF n.workDone = "Success" THEN SLANG_OK ELSE SLANG_FAIL,
                             TRUE, memoryType)

\* a client's call of readBuffer
ReadBuffer ==
    /\ \E n \in NativeOutcomes :
       \E r \in {DeviceImpl_readBuffer(n)} :
          /\ transfer' = r
          /\ lastCall' = Call("readBuffer", NULL, NULL, r.res, FALSE)
    /\ UNCHANGED <<cacheVars, objVars, tableVars, refVars, brVars, failingTypes, unwrap,
                   buffer>>

\* a client's call of createBuffer, with or without initial data
CreateBuffer ==
    /\ \E memoryType \in MemoryTypes, initData \in BOOLEAN, n \in NativeOutcomes :
       \E r \in {DeviceImpl_createBuffer(memoryType, initData, n)} :
          /\ transfer' = r
          /\ lastCall' = Call("createBuffer", NULL, initData, r.res, FALSE)
    /\ UNCHANGED <<cacheVars, objVars, tableVars, refVars, brVars, failingTypes, unwrap,
                   buffer>>

\* the client drops the buffer createBuffer returned: ~BufferImpl runs
ReleaseBuffer ==
    /\ transfer.held
    /\ transfer' = [transfer EXCEPT !.log = @ \o BufferImpl_dtor(TRUE), !.held = FALSE]
    /\ lastCall' = Call("releaseBuffer", NULL, NULL, SLANG_OK, FALSE)
    /\ UNCHANGED <<cacheVars, objVars, tableVars, refVars, brVars, failingTypes, unwrap,
                   buffer>>

\* the shader table and the reference counts while the calls on the shader
\* cache and on shader objects are looked at
InitAux == InitShaderTable(TRUE) /\ InitReferences /\ InitExt

(***************************************************************************)
(* Initial states.                                                         *)
(***************************************************************************)
\* the cache of a device on which no layout has been created yet
InitCacheEmpty ==
    /\ specializedPipelines = <<>>
    /\ specializedPrograms = <<>>
    /\ retired = {}
    /\ frees = 0
    /\ compiled = <<>>
    /\ created = 0
    /\ lastCall = Call("none", NULL, NULL, SLANG_OK, FALSE)

\* shader objects freshly created from the layouts `names`
InitObjects(names) ==
    /\ layoutName = names
    /\ m_state = [o \in DOMAIN names |-> "Initial"]
    /\ m_objects = [o \in DOMAIN names |->
                      [i \in 1..Layouts[names[o]].subObjectCount |-> NULL]]
    /\ m_ordinaryData = [o \in DOMAIN names |->
                      IF Layouts[names[o]].containerType = "None"
                      THEN Zeros(Layouts[names[o]].stride) ELSE <<>>]
    /\ m_userProvidedSpecializationArgs = [o \in DOMAIN names |-> <<>>]
    /\ m_structuredBufferSpecializationArgs = [o \in DOMAIN names |-> <<>>]
    /\ shaderObjectType = [o \in DOMAIN names |-> ExtendedType(NoType, kInvalidComponentID)]
    /\ m_bindings = [o \in DOMAIN names |->
                      [i \in 1..Layouts[names[o]].subObjectCount |-> NULL]]
    /\ assertsEnabled \in BOOLEAN
    /\ halt = "none"
    /\ merged = [o \in DOMAIN names |-> <<>>]
    /\ componentIds = InternLayouts(names, 1, <<>>)
    /\ issued = {[key |-> componentIds[i].key, id |-> componentIds[i].value] :
                    i \in 1..Len(componentIds)}

\* the objects of the main specification: a root with a parameter block and
\* an interface-typed field, the block's object, and a conforming value
SceneObjects == <<"Root", "Mid", "A">>

Init ==
    /\ InitCacheEmpty
    /\ InitAux
    /\ InitObjects(SceneObjects)

\* the bytes a client writes with setData
DataInputs == {<<7>>}

\* the objects a client writes plain data into: those without sub-objects
DataTargets == {o \in Obj : LayoutOf(o).subObjectCount = 0}

\* the objects whose interface-typed field a client specializes explicitly:
\* those with both a parameter block and an interface-typed field
ArgTargets == {o \in Obj : LayoutOf(o).subObjectCount = 2}

\* the sub-objects a client sets into o: objects are composed bottom-up
SubObjectsFor(o) == {s \in Obj : s > o}

Next ==
    \/ \E o \in Obj : \E sub \in SubObjectsFor(o) : \E offset \in OffsetsOf(o, 0) :
          SetObject(o, offset, sub)
    \/ \E o \in DataTargets : \E bytes \in DataInputs :
          SetData(o, ShaderOffset(0, 0, 0), bytes)
    \/ \E o \in ArgTargets : \E args \in ArgInputs :
          SetSpecializationArgs(o, ShaderOffset(0, 1, 0), args)
    \/ \E o \in Obj : Finalize(o)
    \/ \E o \in Obj : MarkInitialized(o)
    \/ \E o \in ArgTargets : \E offset \in OffsetsOf(o, 1) : GetObject(o, offset)

Spec == Init /\ [][Next]_vars

(***************************************************************************)
(* A container of interface-typed elements on its own: elements are bound  *)
(* and argument lists are set on a StructuredBuffer<IFoo>.                 *)
(***************************************************************************)
\* how many argument lists are merged into one container
MaxMerges == 3

\* two conforming values and the container they are bound into
ContainerObjects == <<"A", "B", "Buf">>

\* the containers among the objects
Containers == {o \in Obj : LayoutOf(o).containerType # "None"}

\* the argument arrays a client passes to a container: none, one type, two
ContainerArgInputs ==
    {<<>>,
     <<[kind |-> "Type", type |-> PlainType("A")]>>,
     <<[kind |-> "Type", type |-> PlainType("B")]>>,
     <<[kind |-> "Type", type |-> PlainType("A")],
       [kind |-> "Type", type |-> PlainType("B")]>>}

InitContainer ==
    /\ InitCacheEmpty
    /\ InitAux
    /\ InitObjects(ContainerObjects)

NextContainer ==
    \/ \E o \in Containers : \E sub \in Obj \ Containers :
       \E offset \in OffsetsOf(o, 1) :
          Len(merged[o]) < MaxMerges /\ SetObject(o, offset, sub)
    \/ \E o \in Containers : \E args \in ContainerArgInputs :
          Len(merged[o]) < MaxMerges
             /\ SetSpecializationArgs(o, ShaderOffset(0, 0, 0), args)

SpecContainer == InitContainer /\ [][NextContainer]_vars

(***************************************************************************)
(* Nested parameter blocks: a top-level object whose block holds an object *)
(* that itself holds a block, with interface-typed fields at every level.  *)
(***************************************************************************)
NestedObjects == <<"Top", "Root", "Mid", "A">>

\* how many sub-object indices carry user-provided arguments at once
MaxOverrides == 1

\* the sub-object indices (object, index) that carry user-provided arguments
Overridden ==
    {p \in Obj \X {0, 1} :
        /\ p[2] < Len(m_userProvidedSpecializationArgs[p[1]])
        /\ m_userProvidedSpecializationArgs[p[1]][p[2] + 1].present}

\* the argument arrays a client passes for a sub-object index
NestedArgInputs ==
    {<<[kind |-> "Type", type |-> PlainType("B")]>>,
     <<[kind |-> "Type", type |-> PlainType("A")],
       [kind |-> "Type", type |-> PlainType("B")]>>}

\* the offsets of the binding ranges object o declares
RangeOffsetsOf(o) ==
    {ShaderOffset(LayoutOf(o).bindingRanges[r + 1].uniformOffset, r, 0) :
        r \in 0..(Len(LayoutOf(o).bindingRanges) - 1)}

\* the sub-objects a client sets into o: the object of the next level, or a
\* plain value
NestedSubObjectsFor(o) ==
    {s \in Obj : s > o /\ (s = o + 1 \/ LayoutOf(s).subObjectCount = 0)}

InitNested ==
    /\ InitCacheEmpty
    /\ InitAux
    /\ InitObjects(NestedObjects)

NextNested ==
    \/ \E o \in Obj : \E sub \in NestedSubObjectsFor(o) :
       \E offset \in RangeOffsetsOf(o) :
          SetObject(o, offset, sub)
    \/ \E o \in Obj : \E offset \in RangeOffsetsOf(o) : \E args \in NestedArgInputs :
          /\ Cardinality(Overridden \ {<<o, LayoutOf(o).bindingRanges[
                             offset.bindingRangeIndex + 1].subObjectIndex>>}) < MaxOverrides
          /\ SetSpecializationArgs(o, offset, args)

SpecNested == InitNested /\ [][NextNested]_vars

(***************************************************************************)
(* The shader table on its own, with serializing and with concurrent       *)
(* callers.                                                                *)
(***************************************************************************)
InitTable ==
    /\ InitCacheEmpty
    /\ InitObjects(<<>>)
    /\ InitShaderTable(TRUE)
    /\ InitReferences
    /\ InitExt

InitTableConcurrent ==
    /\ InitCacheEmpty
    /\ InitObjects(<<>>)
    /\ InitShaderTable(FALSE)
    /\ InitReferences
    /\ InitExt

NextTable ==
    \/ \E c \in Callers : \E pipeline \in RayTracingPipelines :
          GetOrCreateBuffer_Begin(c, pipeline)
    \/ \E c \in Callers : GetOrCreateBuffer_Find(c)
    \/ \E c \in Callers : GetOrCreateBuffer_Create(c)
    \/ \E c \in Callers : GetOrCreateBuffer_Emplace(c)
    \/ \E c \in Callers : GetOrCreateBuffer_Return(c)

SpecTable == InitTable /\ [][NextTable]_vars

SpecTableConcurrent == InitTableConcurrent /\ [][NextTable]_vars

(***************************************************************************)
(* The device and its resources on their own: the user copies and drops    *)
(* public references, and the device tracks a resource.                    *)
(***************************************************************************)
InitRefs ==
    /\ InitCacheEmpty
    /\ InitObjects(<<>>)
    /\ InitShaderTable(TRUE)
    /\ InitReferences
    /\ InitExt

NextRefs ==
    \/ \E x \in RefObjects : UserAddRef(x)
    \/ \E x \in RefObjects : UserRelease(x)
    \/ \E r \in Resources : SetCurrentResource(r)

SpecRefs == InitRefs /\ [][NextRefs]_vars

(***************************************************************************)
(* One BreakableReference on its own, under every call of its interface.   *)
(***************************************************************************)
InitBreakableOnly ==
    /\ InitCacheEmpty
    /\ InitObjects(<<>>)
    /\ InitShaderTable(TRUE)
    /\ InitReferences
    /\ InitExt

NextBreakable ==
    \/ \E p \in Live \cup {NULL} : Assign(p)
    \/ \E p \in Live \cup {NULL} : SetWeakReference(p)
    \/ BreakStrongReference
    \/ EstablishStrongReference
    \/ \E t \in Targets : OtherAcquire(t)
    \/ \E t \in Targets : OtherRelease(t)

SpecBreakable == InitBreakableOnly /\ [][NextBreakable]_vars

(***************************************************************************)
(* A device and its command queue on their own.                            *)
(***************************************************************************)
NextQueue ==
    \/ CreateCommandQueue
    \/ EstablishStrongReferenceToDevice
    \/ QueueAddRef
    \/ QueueRelease
    \/ DeviceRelease
    \/ OtherAcquire(TheDevice)

SpecQueue == InitBreakableOnly /\ [][NextQueue]_vars

(***************************************************************************)
(* An interface-typed leaf field on its own: values that fit its payload   *)
(* and a value that does not are set into it.                              *)
(***************************************************************************)
PayloadObjects == <<"Mid", "A", "Big">>

InitPayload ==
    /\ InitCacheEmpty
    /\ InitAux
    /\ InitObjects(PayloadObjects)

\* the bytes a client writes into the values
PayloadInputs == {<<7>>, <<8, 9>>}

NextPayload ==
    \/ \E sub \in SubObjectsFor(1) : SetObject(1, ShaderOffset(0, 0, 0), sub)
    \/ \E o \in DataTargets : \E bytes \in PayloadInputs :
          SetData(o, ShaderOffset(0, 0, 0), bytes)
    \/ \E o \in Obj : MarkInitialized(o)
    \/ \E o \in Obj : Finalize(o)

SpecPayload == InitPayload /\ [][NextPayload]_vars

(***************************************************************************)
(* An array of interface-typed fields on its own: values are set into the  *)
(* elements of a binding range with two slots, with and without explicit   *)
(* specialization arguments.                                               *)
(***************************************************************************)
ArrayObjects == <<"Pair", "A", "B">>

InitArray ==
    /\ InitCacheEmpty
    /\ InitAux
    /\ InitObjects(ArrayObjects)

NextArray ==
    \/ \E sub \in SubObjectsFor(1) : \E offset \in OffsetsOf(1, 1) :
          SetObject(1, offset, sub)
    \/ \E i \in 0..1 : \E args \in ArgInputs :
          SetSpecializationArgs(1, ShaderOffset(0, 0, i), args)
    \/ \E o \in Obj : MarkInitialized(o)
    \/ \E o \in Obj : Finalize(o)

SpecArray == InitArray /\ [][NextArray]_vars

(***************************************************************************)
(* Failing nested calls: containers of concrete and of interface-typed     *)
(* elements, and an element with an interface-typed field, where the       *)
(* specialized type of the field's value may not be available.             *)
(***************************************************************************)
FailingObjects == <<"Arr", "Buf", "Mid", "A">>

InitFailing ==
    /\ InitCacheEmpty
    /\ InitObjects(FailingObjects)
    /\ InitShaderTable(TRUE)
    /\ InitReferences
    /\ InitBreakable
    /\ queue = NoQueue
    /\ unwrap = NoUnwrap
    /\ buffer = NewBuffer
    /\ transfer = NoTransfer
    /\ failingTypes \in {{}, {4}}

NextFailing ==
    \/ Len(merged[1]) + Len(merged[2]) < MaxMerges
          /\ SetObject(1, ShaderOffset(0, 0, 0), 3)
    \/ Len(merged[1]) + Len(merged[2]) < MaxMerges
          /\ SetObject(2, ShaderOffset(0, 0, 0), 4)
    \/ \E sub \in {2, 4} : SetObject(3, ShaderOffset(0, 0, 0), sub)
    \/ \E o \in {3, 4} : MarkInitialized(o)
    \/ \E o \in {3, 4} : Finalize(o)

SpecFailing == InitFailing /\ [][NextFailing]_vars

(***************************************************************************)
(* Two containers, one of concrete and one of interface-typed elements,    *)
(* filled at any element index in any order.                               *)
(***************************************************************************)

\* the largest element index a client names
MaxIndex == 2

GrowObjects == <<"Arr", "Buf", "Mid", "A">>

InitGrow ==
    /\ InitCacheEmpty
    /\ InitAux
    /\ InitObjects(GrowObjects)

NextGrow ==
    \/ \E offset \in OffsetsOf(1, MaxIndex) :
          Len(merged[1]) + Len(merged[2]) < MaxMerges /\ SetObject(1, offset, 3)
    \/ \E offset \in OffsetsOf(2, MaxIndex) :
          Len(merged[1]) + Len(merged[2]) < MaxMerges /\ SetObject(2, offset, 4)
    \/ \E bytes \in DataInputs : SetData(3, ShaderOffset(0, 0, 0), bytes)
    \/ MarkInitialized(2)

SpecGrow == InitGrow /\ [][NextGrow]_vars

(***************************************************************************)
(* Objects with a parameter block each, set into one another and into      *)
(* themselves in any order, and a container whose setObject collects the   *)
(* specialization arguments of its element.                                *)
(***************************************************************************)
CycleObjects == <<"Arr", "Root", "Root">>

InitCycle ==
    /\ InitCacheEmpty
    /\ InitAux
    /\ InitObjects(CycleObjects)

NextCycle ==
    \/ \E o \in {2, 3} : \E sub \in {2, 3} : SetObject(o, ShaderOffset(0, 0, 0), sub)
    \/ \E sub \in {2, 3} :
          Len(merged[1]) < MaxMerges /\ SetObject(1, ShaderOffset(0, 0, 0), sub)
    \/ \E o \in {2, 3} : MarkInitialized(o)
    \/ \E o \in {2, 3} : Finalize(o)

SpecCycle == InitCycle /\ [][NextCycle]_vars

(***************************************************************************)
(* A container of concrete elements: two elements of a struct type with an *)
(* interface-typed field, bound or not, are set into it, and the client    *)
(* passes it specialization arguments.                                     *)
(***************************************************************************)
ConcreteObjects == <<"Arr", "Mid", "Mid", "A">>

InitConcrete ==
    /\ InitCacheEmpty
    /\ InitAux
    /\ InitObjects(ConcreteObjects)

NextConcrete ==
    \/ \E sub \in {2, 3} : \E offset \in OffsetsOf(1, 1) :
          Len(merged[1]) < MaxMerges /\ SetObject(1, offset, sub)
    \/ \E o \in {2, 3} : SetObject(o, ShaderOffset(0, 0, 0), 4)
    \/ \E args \in ContainerArgInputs :
          Len(merged[1]) < MaxMerges
             /\ SetSpecializationArgs(1, ShaderOffset(0, 0, 0), args)

SpecConcrete == InitConcrete /\ [][NextConcrete]_vars

(***************************************************************************)
(* An array of two interface-typed fields whose elements are bound and     *)
(* given specialization arguments of one or two types, and a container     *)
(* whose setObject collects the specialization arguments of that object.   *)
(***************************************************************************)
RangeObjects == <<"Arr", "Pair", "A", "B">>

InitRange ==
    /\ InitCacheEmpty
    /\ InitAux
    /\ InitObjects(RangeObjects)

NextRange ==
    \/ \E sub \in {3, 4} : \E i \in 0..1 :
          m_objects[2][i + 1] = NULL
             /\ SetObject(2, ShaderOffset(i * ExistentialHeaderSize, 0, i), sub)
    \/ \E i \in 0..1 : \E args \in NestedArgInputs :
          Cardinality(Overridden) < MaxOverrides
             /\ SetSpecializationArgs(2, ShaderOffset(0, 0, i), args)
    \/ Len(merged[1]) < MaxMerges /\ SetObject(1, ShaderOffset(0, 0, 0), 2)

SpecRange == InitRange /\ [][NextRange]_vars

(***************************************************************************)
(* One buffer on its own: map, unmap, and the callbacks of the native API. *)
(***************************************************************************)
NextBuffer ==
    \/ Map
    \/ Unmap
    \/ \E status \in MapStatuses : MapCallback(status)

SpecBuffer == InitBreakableOnly /\ [][NextBuffer]_vars

(***************************************************************************)
(* readBuffer and createBuffer on their own, under every answer of the     *)
(* native API.                                                             *)
(***************************************************************************)
NextTransfer ==
    \/ ReadBuffer
    \/ CreateBuffer
    \/ ReleaseBuffer

SpecTransfer == InitBreakableOnly /\ [][NextTransfer]_vars

(***************************************************************************)
(* _unwrapParameterGroups on its own, called on every type layout.         *)
(***************************************************************************)
InitUnwrap ==
    /\ InitCacheEmpty
    /\ InitObjects(<<>>)
    /\ InitShaderTable(TRUE)
    /\ InitReferences
    /\ InitBreakable
    /\ queue = NoQueue
    /\ failingTypes = {}
    /\ buffer = NewBuffer
    /\ transfer = NoTransfer
    /\ unwrap \in {Unwrap_begin(t) : t \in LayoutsUpTo(MaxDepth)}

NextUnwrap == Unwrap_Pass

SpecUnwrap == InitUnwrap /\ [][NextUnwrap]_vars

(***************************************************************************)
(* The component-identity table on its own.                                *)
(***************************************************************************)
InitIds ==
    /\ InitCacheEmpty
    /\ InitAux
    /\ InitObjects(<<>>)

NextIds ==
    \/ \E typeName \in {"A", "B"} : GetComponentIdOfType(typeName)
    \/ \E key \in ComponentKeyInputs : GetComponentIdOfKey(key)
    \/ Free

SpecIds == InitIds /\ [][NextIds]_vars

(***************************************************************************)
(* Program specialization on its own.                                      *)
(***************************************************************************)
NextPrograms ==
    \/ \E program \in {1, 2} : \E argIds \in ArgIdInputs :
          SpecializeProgram(program, argIds)
    \/ Free

SpecPrograms == InitIds /\ [][NextPrograms]_vars

(***************************************************************************)
(* Pipelines: a root object with an interface-typed field, the values set  *)
(* into it, and the pipelines specialized for it.                          *)
(***************************************************************************)
PipelineObjects == <<"Mid", "A", "B">>

InitPipelines ==
    /\ InitCacheEmpty
    /\ InitAux
    /\ InitObjects(PipelineObjects)

NextPipelines ==
    \/ \E sub \in SubObjectsFor(1) : SetObject(1, ShaderOffset(0, 0, 0), sub)
    \/ \E pipeline \in VirtualPipelines \cup ConcretePipelines :
          GetConcretePipeline(pipeline, 1)
    \/ \E key \in PipelineKeyInputs : GetSpecializedPipeline(key)
    \/ GetComponentIdOfType("A")
    \/ Free

SpecPipelines == InitPipelines /\ [][NextPipelines]_vars


(***************************************************************************)
(* Properties.                                                             *)
(***************************************************************************)
\* the fields of object o a mutator may change
Fields(objects, data, user, sbArgs, bindings) ==
    [objects |-> objects, data |-> data, user |-> user, sbArgs |-> sbArgs,
     bindings |-> bindings]

\* C1: once an object is Finalized, every setObject, setData or
\* setSpecializationArgs call on it returns SLANG_FAIL and leaves its state,
\* sub-object list, ordinary data and specialization-argument overrides
\* unchanged.
C1_MutatorsFailAfterFinalize ==
    [][\A o \in Obj :
          (/\ m_state[o] = "Finalized"
           /\ lastCall'.obj = o
           /\ lastCall'.op \in {"setObject", "setData", "setSpecializationArgs"})
          => /\ lastCall'.res = SLANG_FAIL
             /\ m_state'[o] = "Finalized"
             /\ m_objects'[o] = m_objects[o]
             /\ m_ordinaryData'[o] = m_ordinaryData[o]
             /\ m_userProvidedSpecializationArgs'[o] = m_userProvidedSpecializationArgs[o]
             /\ m_structuredBufferSpecializationArgs'[o] =
                  m_structuredBufferSpecializationArgs[o]]_vars

\* a setObject call on a Finalized object has been rejected although the
\* sub-object passed was itself Finalized
C1_Witness ==
    /\ lastCall.op = "setObject"
    /\ lastCall.res = SLANG_FAIL
    /\ m_state[lastCall.obj] = "Finalized"
    /\ m_state[lastCall.arg] = "Finalized"

\* C2: finalize() on an object that is already Finalized returns SLANG_FAIL
\* and leaves the object and all its sub-objects Finalized.
C2_SecondFinalizeFails ==
    [][\A o \in Obj :
          (/\ m_state[o] = "Finalized"
           /\ lastCall'.op = "finalize"
           /\ lastCall'.obj = o)
          => /\ lastCall'.res = SLANG_FAIL
             /\ m_state' = m_state]_vars

\* the position of a state on the path Initial -> Initialized -> Finalized
StateRank(state) ==
    CASE state = "Initial" -> 0
      [] state = "Initialized" -> 1
      [] state = "Finalized" -> 2

\* C3: the state of an object only moves forward along
\* Initial -> Initialized -> Finalized, Finalized is terminal, and only a
\* finalize() call moves an object to Finalized.
C3_StateMonotonic ==
    [][\A o \in Obj :
          /\ StateRank(m_state'[o]) >= StateRank(m_state[o])
          /\ m_state[o] = "Finalized" => m_state'[o] = "Finalized"
          /\ (m_state[o] # "Finalized" /\ m_state'[o] = "Finalized")
                => lastCall'.op = "finalize"]_vars

\* an object that went through Initialized has been moved to Finalized by
\* its own finalize() call
C3_Witness ==
    /\ assertsEnabled
    /\ lastCall.op = "finalize"
    /\ lastCall.res = SLANG_OK
    /\ lastCall.arg = 1
    /\ m_state[lastCall.obj] = "Finalized"

RECURSIVE SubObjectTree(_, _)
\* the objects reachable from the set S through at most n sub-object slots
SubObjectTree(S, n) ==
    IF n = 0 THEN S
    ELSE SubObjectTree(
            S \cup (UNION {{m_objects[x][i] : i \in DOMAIN m_objects[x]} : x \in S}
                      \ {NULL}),
            n - 1)

\* C4: every Finalized object has only Finalized objects in the whole tree
\* of its non-null sub-objects.
C4_FinalizedSubTree ==
    \A o \in Obj :
        m_state[o] = "Finalized"
        => \A s \in SubObjectTree({o}, Cardinality(Obj)) : m_state[s] = "Finalized"

\* one finalize() call on the root has finalized the root, its parameter
\* block's object and that object's interface-typed value
C4_Witness ==
    /\ lastCall.op = "finalize"
    /\ lastCall.obj = 1
    /\ lastCall.res = SLANG_OK
    /\ lastCall.arg = 3
    /\ m_objects[1][1] = 2
    /\ m_objects[2][1] = 3

\* whether setObject(offset, subObject) on o passes every test after the
\* state switch: the offset names a binding range of o, and for an
\* interface-typed field the value conforms and fits the payload
Acceptable(o, offset, subObject) ==
    /\ LayoutOf(o).containerType = "None"
    /\ offset.bindingRangeIndex \in 0..(Len(LayoutOf(o).bindingRanges) - 1)
    /\ \/ LayoutOf(o).bindingRanges[offset.bindingRangeIndex + 1].bindingType
            = "ParameterBlock"
       \/ /\ LayoutOf(o).bindingRanges[offset.bindingRangeIndex + 1].bindingType
               = "ExistentialValue"
          /\ LayoutOf(subObject).typeName \in ConformingTypes
          /\ LayoutOf(subObject).stride
               <= LayoutOf(o).bindingRanges[offset.bindingRangeIndex + 1].payloadSize

\* C5: setObject on an Initialized parent with a sub-object that is not
\* Finalized returns SLANG_FAIL and leaves the parent unchanged; setObject on
\* an Initial parent accepts a sub-object that is not Finalized.
C5_SetObjectOrdering ==
    \A o \in Obj : \A subObject \in Obj : \A offset \in OffsetsOf(o, 0) :
    \A r \in {ShaderObject_setObject(o, offset, subObject, World(m_objects, 0))} :
        m_state[subObject] # "Finalized"
        => /\ m_state[o] = "Initialized"
              => /\ r.res = SLANG_FAIL
                 /\ Fields(r.objects, r.data, m_userProvidedSpecializationArgs[o],
                           r.sbArgs, r.bindings)
                      = Fields(m_objects[o], m_ordinaryData[o],
                               m_userProvidedSpecializationArgs[o],
                               m_structuredBufferSpecializationArgs[o], m_bindings[o])
                 /\ r.W.ids = componentIds
           /\ (m_state[o] = "Initial" /\ Acceptable(o, offset, subObject))
              => /\ r.res = SLANG_OK
                 /\ r.objects[
                       LayoutOf(o).bindingRanges[offset.bindingRangeIndex + 1].subObjectIndex
                         + offset.bindingArrayIndex + 1] = subObject

\* a setObject call on an Initialized parent has been rejected because the
\* sub-object was not Finalized
C5_Witness ==
    /\ lastCall.op = "setObject"
    /\ lastCall.res = SLANG_FAIL
    /\ m_state[lastCall.obj] = "Initialized"
    /\ m_state[lastCall.arg] # "Finalized"

\* whether two keys have equal type names and equal ordered argument ids
SameKey(a, b) ==
    a.typeName = b.typeName /\ a.specializationArgs = b.specializationArgs

\* C6: between two free() calls getComponentId returns the same id for keys
\* with equal type name and equal ordered argument ids, and different ids
\* for keys that differ in either, permutations included.
C6_IdsIdentifyKeys ==
    \A a \in issued : \A b \in issued : SameKey(a.key, b.key) <=> a.id = b.id

\* two keys whose argument ids are permutations of each other, and collide
\* in their hash, have been given ids
C6_Witness ==
    \E a \in issued : \E b \in issued :
        /\ a.key.typeName = b.key.typeName
        /\ a.key.specializationArgs = <<0, HashMod>>
        /\ b.key.specializationArgs = <<HashMod, 0>>
        /\ a.key.hash = b.key.hash
        /\ a.id # b.id

\* C7: getComponentId with a key equal to one already interned returns that
\* key's id and adds no entry to the table.
C7_GetComponentIdIdempotent ==
    \A e \in issued :
    \A key \in ComponentKeyInputs \cup
               {ComponentKey_updateHash(n, <<>>) : n \in {"A", "B"}} :
        SameKey(e.key, key)
        => ShaderCache_getComponentId(componentIds, key)
             = [table |-> componentIds, id |-> e.id, hit |-> TRUE]

\* getComponentId has been called with a key that was already interned,
\* in a table that holds other keys as well
C7_Witness ==
    /\ lastCall.op = "getComponentId"
    /\ lastCall.hit
    /\ Len(componentIds) > 1
    /\ lastCall.arg.specializationArgs # <<>>

C9_CachedUntilFree ==
    [][IF lastCall'.op = "free"
       THEN /\ componentIds' = <<>>
            /\ specializedPipelines' = <<>>
            /\ \A key \in PipelineKeyInputs :
                  ShaderCache_getSpecializedPipeline(specializedPipelines', key) = NULL
       ELSE /\ \A i \in 1..Len(specializedPipelines) :
                  /\ ShaderCache_getSpecializedPipeline(specializedPipelines,
                        specializedPipelines[i].key) = specializedPipelines[i].value
                  /\ ShaderCache_getSpecializedPipeline(specializedPipelines',
                        specializedPipelines[i].key) = specializedPipelines[i].value
                  /\ (/\ lastCall'.op = "getSpecializedPipeline"
                      /\ lastCall'.arg.pipeline = specializedPipelines[i].key.pipeline
                      /\ lastCall'.arg.specializationArgs
                           = specializedPipelines[i].key.specializationArgs)
                     => lastCall'.res = specializedPipelines[i].value
            /\ \A i \in 1..Len(componentIds) :
                  ShaderCache_getComponentId(componentIds', componentIds[i].key).id
                    = componentIds[i].value]_vars

\* after a free() two pipelines have been inserted again and a lookup has
\* returned one of them
C9_Witness ==
    /\ frees > 0
    /\ Len(specializedPipelines) = 2
    /\ lastCall.op = "getSpecializedPipeline"
    /\ lastCall.hit
    /\ lastCall.res = specializedPipelines[2].value

\* C10: specializeProgram with a base program and argument ids it was called
\* with before returns the same specialized program as then, without
\* compiling again; no signature is ever compiled twice.
C10_SpecializeProgramOnce ==
    [][lastCall'.op = "specializeProgram"
       => /\ \A i \in 1..Len(compiled) :
                compiled[i].key = lastCall'.arg
                => /\ lastCall'.res = compiled[i].value
                   /\ compiled' = compiled
          /\ \A i \in 1..Len(compiled') : \A j \in 1..Len(compiled') :
                compiled'[i].key = compiled'[j].key => i = j]_vars

\* specializeProgram has been called a second time with a signature, after
\* other signatures were compiled
C10_Witness ==
    /\ lastCall.op = "specializeProgram"
    /\ lastCall.hit
    /\ Len(compiled) > 1
    /\ lastCall.res = compiled[1].value

\* whether two pipeline keys have the same pipeline identity and the same
\* ordered argument ids
SamePipelineKey(a, b) ==
    a.pipeline = b.pipeline /\ a.specializationArgs = b.specializationArgs

\* C11: getConcretePipeline on a pipeline that is not virtual returns that
\* pipeline and leaves the component-identity table, the specialized-pipeline
\* table, the compiled programs and the created pipelines unchanged.
C11_ConcretePipelineUnchanged ==
    [][(/\ lastCall'.op = "getConcretePipeline"
        /\ lastCall'.obj \in ConcretePipelines)
       => /\ lastCall'.res = lastCall'.obj
          /\ componentIds' = componentIds
          /\ specializedPipelines' = specializedPipelines
          /\ specializedPrograms' = specializedPrograms
          /\ compiled' = compiled
          /\ created' = created]_vars

\* getConcretePipeline has returned a concrete pipeline as it is while the
\* cache held specialized pipelines
C11_Witness ==
    /\ lastCall.op = "getConcretePipeline"
    /\ lastCall.obj \in ConcretePipelines
    /\ lastCall.res = lastCall.obj
    /\ Len(specializedPipelines) > 0

\* C12: getConcretePipeline on a virtual pipeline whose key (pipeline, ordered
\* argument ids of the root object) is cached returns the cached pipeline
\* and creates none; with a key that is not cached it returns a pipeline
\* that is cached under no other key; no key is cached twice.  (The calls
\* looked at are those that return a pipeline: a cache hit, or a creation.)
C12_OnePipelinePerKey ==
    [][(/\ lastCall'.op = "getConcretePipeline"
        /\ lastCall'.obj \in VirtualPipelines
        /\ lastCall'.hit \/ created' # created)
       => /\ \A i \in 1..Len(specializedPipelines) :
                IF SamePipelineKey(specializedPipelines[i].key, lastCall'.arg)
                THEN /\ lastCall'.res = specializedPipelines[i].value
                     /\ created' = created
                     /\ specializedPipelines' = specializedPipelines
                ELSE lastCall'.res # specializedPipelines[i].value
          /\ \A i \in 1..Len(specializedPipelines') :
             \A j \in 1..Len(specializedPipelines') :
                (\/ SamePipelineKey(specializedPipelines'[i].key,
                                    specializedPipelines'[j].key)
                 \/ specializedPipelines'[i].value = specializedPipelines'[j].value)
                => i = j]_vars

\* a virtual pipeline has been asked for a second time with the same root
\* arguments while another key was cached as well, and no pipeline was created
C12_Witness ==
    /\ lastCall.op = "getConcretePipeline"
    /\ lastCall.obj \in VirtualPipelines
    /\ lastCall.hit
    /\ Len(specializedPipelines) = 2
    /\ lastCall.res = specializedPipelines[2].value
    /\ created = 2

\* the element signature stored in container o
Signature(o) == m_structuredBufferSpecializationArgs[o]

\* whether every list merged into container o came from binding an element
OnlyElements(o) == \A k \in 1..Len(merged[o]) : merged[o][k].op = "setObject"

\* whether an entry of a signature is the dynamic sentinel, under the id the
\* cache holds for it
IsDynamic(e) ==
    /\ e.slangType = DynamicType
    /\ \E at \in 1..Len(componentIds) :
          /\ componentIds[at].key = ComponentKey_updateHash(DynamicType.name, <<>>)
          /\ componentIds[at].value = e.componentID

\* C13: in a container into which only elements were bound, the signature
\* after the first element is that element's argument list; after any number
\* of elements, a position at which two elements contributed different
\* component ids holds the id of the dynamic sentinel type, and a position at
\* which all elements contributed the same id holds that element entry.
C13_ElementSignatureMerge ==
    \A o \in Containers :
       (OnlyElements(o) /\ Len(merged[o]) > 0)
          => /\ Len(merged[o]) = 1 => Signature(o) = merged[o][1].list
             /\ Len(Signature(o)) = Len(merged[o][1].list)
             /\ \A i \in 1..Len(Signature(o)) :
                   IF \E j, k \in 1..Len(merged[o]) :
                         merged[o][j].list[i].componentID
                            # merged[o][k].list[i].componentID
                   THEN IsDynamic(Signature(o)[i])
                   ELSE Signature(o)[i] = merged[o][1].list[i]

\* three elements were bound, the first two of one type and the third of
\* another, and the position is the dynamic sentinel
C13_Witness ==
    \E o \in Containers :
       /\ OnlyElements(o) /\ Len(merged[o]) = 3
       /\ merged[o][1].list = merged[o][2].list
       /\ merged[o][3].list[1].componentID # merged[o][1].list[1].componentID
       /\ IsDynamic(Signature(o)[1])
       /\ m_objects[o] # <<>>

\* C14 as stated: in every state of a container of interface-typed elements,
\* a position of the signature holding a concrete (non-dynamic) entry means
\* that every list merged so far, from setObject and from
\* setSpecializationArgs, has that position and carried that id there; and a
\* position holding the dynamic sentinel keeps holding it.
C14_ConcreteMeansAllCarried ==
    /\ [](\A o \in Containers : \A i \in 1..Len(Signature(o)) :
             Signature(o)[i].slangType # DynamicType
                => \A k \in 1..Len(merged[o]) :
                      /\ i <= Len(merged[o][k].list)
                      /\ merged[o][k].list[i].componentID = Signature(o)[i].componentID)
    /\ [][\A o \in Containers : \A i \in 1..Len(Signature(o)) :
             Signature(o)[i].slangType = DynamicType
                => /\ i <= Len(Signature(o)')
                   /\ Signature(o)'[i].slangType = DynamicType]_vars

\* C14, amended: a position of the signature holding a concrete entry means
\* that every merged list that has that position carried that id there (a
\* list shorter than the signature carried nothing there); and a position
\* holding the dynamic sentinel keeps holding it under every later merge.
C14_ConcreteMeansCarriedWherePresent ==
    /\ [](\A o \in Containers : \A i \in 1..Len(Signature(o)) :
             Signature(o)[i].slangType # DynamicType
                => \A k \in 1..Len(merged[o]) :
                      i <= Len(merged[o][k].list)
                         => merged[o][k].list[i].componentID
                               = Signature(o)[i].componentID)
    /\ [][\A o \in Containers : \A i \in 1..Len(Signature(o)) :
             Signature(o)[i].slangType = DynamicType
                => /\ i <= Len(Signature(o)')
                   /\ Signature(o)'[i].slangType = DynamicType]_vars

\* lists from both operations were merged; one position is still concrete,
\* another has become the dynamic sentinel and a later merge left it so
C14_Witness ==
    \E o \in Containers :
       /\ Len(merged[o]) = 3
       /\ \E j, k \in 1..3 : merged[o][j].op = "setObject"
                                /\ merged[o][k].op = "setSpecializationArgs"
       /\ Len(Signature(o)) = 2
       /\ Signature(o)[1].slangType # DynamicType
       /\ IsDynamic(Signature(o)[2])
       /\ Len(merged[o][3].list) = 2

RECURSIVE Decode(_, _)
\* the type a component id stands for in cache table `table`, as a term: the
\* type name and the terms of its specialization arguments
Decode(id, table) ==
    The({[name |-> table[at].key.typeName,
          args |-> [i \in 1..Len(table[at].key.specializationArgs) |->
                      Decode(table[at].key.specializationArgs[i], table)]] :
            at \in {First({k \in 1..Len(table) : table[k].value = id})}})

RECURSIVE RefWalk(_)
RECURSIVE RefRanges(_, _)
\* the reference walk: the specialized type of the object bound at a range,
\* as a term
RefOwn(s) == [name |-> LayoutOf(s).typeName, args |-> RefWalk(s)]

\* the reference walk: what sub-object range r of object o contributes (the
\* types the client named for the range's sub-object index, when it named any)
RefRange(o, r) ==
    LET range == LayoutOf(o).bindingRanges[LayoutOf(o).subObjectRanges[r + 1] + 1]
        sub == m_objects[o][range.subObjectIndex + 1]
        user == m_userProvidedSpecializationArgs[o]
    IN  IF sub = NULL THEN <<>>
        ELSE IF <<o, range.subObjectIndex>> \in Overridden
        THEN [i \in 1..Len(user[range.subObjectIndex + 1].list) |->
                 [name |-> user[range.subObjectIndex + 1].list[i].slangType.name,
                  args |-> <<>>]]
        ELSE IF range.bindingType = "ExistentialValue" THEN <<RefOwn(sub)>>
        ELSE (IF range.isSpecializable THEN <<RefOwn(sub)>> ELSE <<>>) \o RefWalk(sub)

\* the reference walk: the contributions of ranges r, r+1, ... of object o
RefRanges(o, r) ==
    IF r >= Len(LayoutOf(o).subObjectRanges) THEN <<>>
    ELSE RefRange(o, r) \o RefRanges(o, r + 1)

\* the reference depth-first walk of the binding-range tree below object o
RefWalk(o) == RefRanges(o, 0)

\* C15: with no user-provided arguments anywhere, collectSpecializationArgs
\* on any object succeeds and yields one flat list that is the depth-first
\* walk of the binding-range tree below it: range by range in order, a
\* sub-object's own type followed directly by its nested arguments.
C15_CollectIsDepthFirstWalk ==
    Overridden = {}
       => \A o \in Obj :
             \E c \in {CollectSpecializationArgs(o, <<>>,
                          World(m_objects, kInvalidComponentID), {})} :
                /\ c.res = SLANG_OK
                /\ [i \in 1..Len(c.args) |-> Decode(c.args[i].componentID, c.W.ids)]
                      = RefWalk(o)

\* every level is bound: the top object's block holds an object whose block
\* holds a further object, and all interface-typed fields hold a value; the
\* walk has the block's own type, its two nested arguments and the top
\* object's own field
C15_Witness ==
    /\ Overridden = {}
    /\ \A o \in Obj : \A i \in DOMAIN m_objects[o] : m_objects[o][i] # NULL
    /\ LayoutOf(m_objects[1][1]).typeName = "Root"
    /\ LayoutOf(m_objects[2][1]).typeName = "Mid"
    /\ Len(RefWalk(1)) = 4
    /\ RefWalk(1)[1].name = "Root" /\ Len(RefWalk(1)[1].args) = 2
    /\ Len(CollectSpecializationArgs(1, <<>>,
              World(m_objects, kInvalidComponentID), {}).args) = 4

\* the binding range of sub-object range r of object o
SubObjectRange(o, r) ==
    LayoutOf(o).bindingRanges[LayoutOf(o).subObjectRanges[r + 1] + 1]

\* C16: for every bound sub-object index with user-provided arguments, the
\* step of collectSpecializationArgs for that index appends exactly the
\* provided list and touches nothing else (no type is derived or interned,
\* the sub-object is not entered), and the whole collected list is the walk
\* with the provided lists in place; a successful setSpecializationArgs for
\* an index leaves exactly the list it was given, whatever was stored before.
C16_UserArgsTakePrecedence ==
    /\ [](\A o \in Obj :
             /\ \A r \in 0..(Len(LayoutOf(o).subObjectRanges) - 1) :
                   (/\ <<o, SubObjectRange(o, r).subObjectIndex>> \in Overridden
                    /\ m_objects[o][SubObjectRange(o, r).subObjectIndex + 1] # NULL)
                      => \E W \in {World(m_objects, kInvalidComponentID)} :
                            CollectElement(o, SubObjectRange(o, r),
                                           SubObjectRange(o, r).subObjectIndex,
                                           <<>>, 0, W, {})
                               = [res |-> SLANG_OK,
                                  args |-> m_userProvidedSpecializationArgs[o][
                                              SubObjectRange(o, r).subObjectIndex + 1].list,
                                  W |-> W]
             /\ \E c \in {CollectSpecializationArgs(o, <<>>,
                             World(m_objects, kInvalidComponentID), {})} :
                   /\ c.res = SLANG_OK
                   /\ [i \in 1..Len(c.args) |-> Decode(c.args[i].componentID, c.W.ids)]
                         = RefWalk(o))
    /\ [][(/\ lastCall'.op = "setSpecializationArgs"
           /\ lastCall'.res = SLANG_OK
           /\ LayoutOf(lastCall'.obj).containerType = "None")
          => \E idx \in {SubObjectRange(lastCall'.obj,
                            lastCall'.arg.offset.bindingRangeIndex).subObjectIndex
                           + lastCall'.arg.offset.bindingArrayIndex + 1} :
             \E stored \in {m_userProvidedSpecializationArgs'[lastCall'.obj][idx]} :
                /\ stored.present
                /\ Len(stored.list) = Len(lastCall'.arg.args)
                /\ \A i \in 1..Len(stored.list) :
                      stored.list[i].slangType = lastCall'.arg.args[i].type]_vars

\* the block of the second level holds an object whose interface-typed field
\* is bound to an A, the client named other types for the block's index, and
\* the collected list starts with the named types
C16_Witness ==
    /\ lastCall.op = "setSpecializationArgs" /\ lastCall.res = SLANG_OK
    /\ <<2, 0>> \in Overridden
    /\ m_objects[2][1] # NULL
    /\ LayoutOf(m_objects[2][1]).typeName = "Mid"
    /\ m_objects[m_objects[2][1]][1] # NULL
    /\ m_objects[2][2] # NULL
    /\ Len(m_userProvidedSpecializationArgs[2][1].list) = 2
    /\ RefWalk(2) = <<[name |-> "A", args |-> <<>>], [name |-> "B", args |-> <<>>],
                      [name |-> "A", args |-> <<>>]>>

\* how often createDeviceBuffer was invoked for a pipeline
Constructions(pipeline) ==
    Cardinality({n \in 1..Len(createdBuffers) : createdBuffers[n] = pipeline})

\* C17: with serializing callers, createDeviceBuffer is invoked at most once
\* per pipeline; a call that misses builds the buffer and stores it; every
\* call returns the buffer stored for its pipeline; and a stored buffer is
\* never replaced or dropped, whichever pipeline a call is for.
C17_BuiltOncePerPipeline ==
    /\ [](/\ \A p \in RayTracingPipelines : Constructions(p) <= 1
          /\ \A c \in Callers :
                callerReturned[c].pipeline # NULL
                   => /\ callerReturned[c].buffer # NULL
                      /\ callerReturned[c].buffer
                            = m_deviceBuffers[callerReturned[c].pipeline]
          /\ releasedBuffers = {})
    /\ [][/\ \A p \in RayTracingPipelines :
                m_deviceBuffers[p] # NULL => m_deviceBuffers'[p] = m_deviceBuffers[p]
          /\ \A c \in Callers :
                (callerPc[c] = "emplace" /\ callerPc'[c] = "return")
                   => /\ m_deviceBuffers[callerFrame[c].pipeline] = NULL
                      /\ m_deviceBuffers'[callerFrame[c].pipeline]
                            = callerFrame[c].result
                      /\ \A q \in RayTracingPipelines \ {callerFrame[c].pipeline} :
                            m_deviceBuffers'[q] = m_deviceBuffers[q]]_vars

\* both pipelines have a buffer, each built once; the last call was a hit that
\* returned the buffer an earlier call by the other caller had built
C17_Witness ==
    /\ serialized
    /\ \A p \in RayTracingPipelines : Constructions(p) = 1 /\ m_deviceBuffers[p] # NULL
    /\ lastCall.op = "getOrCreateBuffer" /\ lastCall.hit
    /\ callerReturned[1].pipeline = callerReturned[2].pipeline
    /\ callerReturned[1].buffer = callerReturned[2].buffer
    /\ started = MaxCalls

\* C18: with callers that do not serialize, whenever two callers have both
\* missed the lookup for the same pipeline and returned, createDeviceBuffer
\* was invoked twice for that pipeline and the two callers hold different
\* buffers (the witness shows that this interleaving exists).
C18_BothMissBuildTwice ==
    \A c, d \in Callers :
       (/\ c # d
        /\ callerPc[c] = "idle" /\ callerPc[d] = "idle"
        /\ callerFrame[c].missed /\ callerFrame[d].missed
        /\ callerFrame[c].pipeline = callerFrame[d].pipeline
        /\ callerFrame[c].pipeline # NULL)
          => /\ Constructions(callerFrame[c].pipeline) >= 2
             /\ callerReturned[c].buffer # callerReturned[d].buffer

\* two concurrent callers both missed for pipeline 1, two buffers were built
\* for it, and the callers returned with different buffers, one of which the
\* table never took
C18_Witness ==
    /\ ~serialized
    /\ callerPc[1] = "idle" /\ callerPc[2] = "idle"
    /\ callerFrame[1].missed /\ callerFrame[2].missed
    /\ callerFrame[1].pipeline = 1 /\ callerFrame[2].pipeline = 1
    /\ Constructions(1) = 2
    /\ callerReturned[1].buffer # callerReturned[2].buffer
    /\ callerReturned[1].buffer # NULL /\ callerReturned[2].buffer # NULL
    /\ releasedBuffers # {}

\* whether x's destructor has run, and when
Destroyed(x) == \E n \in 1..Len(destroyLog) : destroyLog[n] = x
DestroyedAt(x) == First({n \in 1..Len(destroyLog) : destroyLog[n] = x})

\* whether the user holds no public reference to any object
AllReleased == \A x \in RefObjects : comRefCount[x] = 0

\* C19: no object is destroyed while the user holds a public reference to it;
\* once the user has released every public reference every object is
\* destroyed; and for a resource in a cycle with the device (the device
\* tracks it, nothing else keeps the device), the release that takes the
\* second of the two public counts to zero destroys both, whether the device
\* or the resource was released first.
C19_CycleRobustToReleaseOrder ==
    /\ [](\A x \in RefObjects : Destroyed(x) => comRefCount[x] = 0)
    /\ [](AllReleased => \A x \in RefObjects : Destroyed(x))
    /\ (AllReleased ~> (\A x \in RefObjects : Destroyed(x)))
    /\ [][\A r \in Resources :
             (/\ m_currentResource = r
              /\ comRefCount[TheDevice] + comRefCount[r] = 1
              /\ comRefCount'[TheDevice] + comRefCount'[r] = 0
              /\ \A q \in Resources \ {r} : m_device[q].m_strongPtr = NULL)
                => /\ ~Destroyed(TheDevice) /\ ~Destroyed(r)
                   /\ Destroyed(TheDevice)' /\ Destroyed(r)']_vars

\* the device tracked a resource, the user released the device first and that
\* resource last, and both are destroyed
C19_Witness ==
    \E i, j \in 1..Len(zeroLog) :
       /\ i < j /\ j = Len(zeroLog)
       /\ zeroLog[i].obj = TheDevice
       /\ zeroLog[j].obj \in Resources
       /\ zeroLog[i].current = zeroLog[j].obj
       /\ zeroLog[j].current = zeroLog[j].obj
       /\ Destroyed(TheDevice) /\ Destroyed(zeroLog[j].obj)

\* C20: when the device does not track resource r, r still holds its strong
\* pointer and that pointer is the last reference to the device, the release
\* that takes r's public count to zero destroys the device first and runs
\* r's destructor afterwards, with the device freed and r's m_device still
\* pointing at it.
C20_BreakWithoutCycleFreesDevice ==
    [][\A r \in Resources :
          (/\ comRefCount[r] = 1 /\ comRefCount'[r] = 0
           /\ m_currentResource # r
           /\ m_device[r].m_strongPtr = TheDevice
           /\ referenceCount[TheDevice] = 1)
             => /\ Destroyed(TheDevice)' /\ Destroyed(r)'
                /\ DestroyedAt(TheDevice)' < DestroyedAt(r)'
                /\ dtorDevice'[r] = "freed"
                /\ BreakableReference_get(m_device'[r]) = TheDevice]_vars

\* the device tracked no resource when resource 2, the only holder of the
\* device, was released last: its destructor ran with the device freed
C20_Witness ==
    /\ Len(zeroLog) = 3
    /\ zeroLog[3] = [obj |-> 2, current |-> NULL]
    /\ dtorDevice[2] = "freed"
    /\ DestroyedAt(TheDevice) < DestroyedAt(2)
    /\ m_device[2].m_weakPtr = TheDevice


\* C22: after any sequence of assignment, setWeakReference,
\* breakStrongReference and establishStrongReference, a BreakableReference
\* is in exactly one mode for its single target: its owning pointer is null
\* (weak) or the very target get() returns (strong), so it never owns an
\* object other than the one it dereferences to, and, as long as no
\* destroyed object was referenced again, every object's reference count is
\* its other owners' references plus exactly 1 if the reference is strong to
\* it and plus 0 otherwise.
C22_OneModeOneTarget ==
    /\ breakable.m_strongPtr \in {NULL, BreakableReference_get(breakable)}
    /\ ~misuse =>
          \A t \in Targets :
             targetCount[t] = otherOwners[t]
                                + (IF breakable.m_strongPtr = t THEN 1 ELSE 0)

\* both modes were seen after setWeakReference re-targeted a strong reference:
\* the reference is weak to one object while the other, once owned, is back at
\* its other owners' count
C22_Witness ==
    /\ lastCall.op = "setWeakReference"
    /\ lastCall.arg = "assign"
    /\ breakable.m_strongPtr = NULL
    /\ breakable.m_weakPtr = 2
    /\ targetCount = otherOwners
    /\ otherOwners[1] = 2

\* C23: breakStrongReference leaves the observable target unchanged: get()
\* (and with it operator-> and operator*) returns the same target before and
\* after, whether the reference was strong or weak, and a breakStrongReference
\* on an already weak reference releases nothing.
C23_BreakKeepsTarget ==
    [][lastCall'.op = "breakStrongReference" =>
          /\ BreakableReference_get(breakable') = BreakableReference_get(breakable)
          /\ breakable.m_strongPtr = NULL => targetCount' = targetCount
          /\ breakable.m_strongPtr # NULL =>
                targetCount' = [targetCount EXCEPT ![breakable.m_strongPtr] = @ - 1]]_vars

\* a second breakStrongReference in a row took place on a reference with a
\* target
C23_Witness ==
    /\ lastCall.op = "breakStrongReference"
    /\ lastCall.arg = "breakStrongReference"
    /\ BreakableReference_get(breakable) # NULL
    /\ targetCount[BreakableReference_get(breakable)] > 0

\* C24: establishStrongReference reverses breakStrongReference: from a strong
\* reference to a target that stays alive through the break (it has another
\* owner), break followed by establish yields a strong reference to the same
\* target with every count as before the break; and establish on a reference
\* that is already strong changes no count.
C24_EstablishReversesBreak ==
    (~misuse /\ breakable.m_strongPtr # NULL) =>
       /\ targetCount[breakable.m_strongPtr] > 1 =>
             \A b \in Refs_breakStrongReference(Refs) :
                /\ b.ref.m_strongPtr = NULL
                /\ \A e \in Refs_establishStrongReference(b) : e = Refs
       /\ \A e \in Refs_establishStrongReference(Refs) : e = Refs

\* establish took place right after break on a target with another owner, and
\* the reference is strong again
C24_Witness ==
    /\ lastCall.op = "establishStrongReference"
    /\ lastCall.arg = "breakStrongReference"
    /\ ~misuse
    /\ breakable.m_strongPtr # NULL
    /\ targetCount[breakable.m_strongPtr] = 3


OutsideRange(o, offset) ==
    \/ offset.bindingRangeIndex < 0
    \/ offset.bindingRangeIndex >= Len(LayoutOf(o).bindingRanges)
    \/ offset.bindingArrayIndex
         >= LayoutOf(o).bindingRanges[offset.bindingRangeIndex + 1].count

\* the binding-range index of the offset is not one of o's binding ranges
OutsideRanges(o, offset) ==
    \/ offset.bindingRangeIndex < 0
    \/ offset.bindingRangeIndex >= Len(LayoutOf(o).bindingRanges)

\* setObject, getObject and setSpecializationArgs on object o at an offset
\* return invalid-argument and leave o unchanged
RejectsOffset(o, offset) ==
    /\ \A subObject \in Obj :
       \A r \in {ShaderObject_setObject(o, offset, subObject, World(m_objects, 0))} :
          /\ r.res = SLANG_E_INVALID_ARG
          /\ ~r.W.ub
          /\ Fields(r.objects, r.data, m_userProvidedSpecializationArgs[o],
                    r.sbArgs, r.bindings)
               = Fields(m_objects[o], m_ordinaryData[o],
                        m_userProvidedSpecializationArgs[o],
                        m_structuredBufferSpecializationArgs[o], m_bindings[o])
    /\ \A r \in {ShaderObject_getObject(o, offset, World(m_objects, 0))} :
          r.res = SLANG_E_INVALID_ARG /\ ~r.ub
    /\ \A args \in ArgInputs :
       \A r \in {ShaderObject_setSpecializationArgs(o, offset, args,
                                                    World(m_objects, 0))} :
          /\ r.res = SLANG_E_INVALID_ARG
          /\ r.user = m_userProvidedSpecializationArgs[o]

\* C25 (as stated): on a non-container shader object that is not Finalized,
\* setObject, getObject and setSpecializationArgs return invalid-argument and
\* leave the object unchanged whenever the binding-range index is negative or
\* not below the binding-range count, or the binding-array index is not below
\* the number of slots of that binding range.
C25_OffsetOutsideRangeIsInvalidArg ==
    \A o \in Obj : \A offset \in OffsetsOf(o, 1) :
        (/\ LayoutOf(o).containerType = "None"
         /\ m_state[o] = "Initial"
         /\ OutsideRange(o, offset))
        => RejectsOffset(o, offset)

\* C25 (the part that holds): the same calls return invalid-argument and
\* leave the object unchanged whenever the binding-range index is negative or
\* not below the binding-range count.
C25_RangeIndexOutsideIsInvalidArg ==
    \A o \in Obj : \A offset \in OffsetsOf(o, 1) :
        (/\ LayoutOf(o).containerType = "None"
         /\ m_state[o] = "Initial"
         /\ OutsideRanges(o, offset))
        => RejectsOffset(o, offset)

\* getObject was called on an object with a binding-range index outside its
\* declared ranges and returned invalid-argument
C25_Witness ==
    /\ lastCall.op = "getObject"
    /\ lastCall.res = SLANG_E_INVALID_ARG
    /\ LayoutOf(lastCall.obj).containerType = "None"
    /\ m_state[lastCall.obj] = "Initial"


\* setObject on o at the offset gets as far as the payload of an
\* interface-typed leaf field: o accepts the call in its state, the offset
\* names such a field, and the value's type conforms to the interface (the
\* header is written)
ReachesPayload(o, offset, subObject) ==
    /\ LayoutOf(o).containerType = "None"
    /\ subObject # o
    /\ \/ m_state[o] = "Initial"
       \/ m_state[o] = "Initialized" /\ m_state[subObject] = "Finalized"
    /\ offset.bindingRangeIndex \in 0..(Len(LayoutOf(o).bindingRanges) - 1)
    /\ LayoutOf(o).bindingRanges[offset.bindingRangeIndex + 1].bindingType
         = "ExistentialValue"
    /\ LayoutOf(subObject).typeName \in ConformingTypes

\* C26: in setObject's existential-value leaf case, once the header is
\* written, the call returns success and the sub-object's ordinary data is in
\* the payload region (16 bytes after the header's offset) when the concrete
\* value fits the payload, and the call returns not-implemented when it does
\* not fit.
C26_PayloadCopiedOrNotImplemented ==
    \A o \in Obj : \A subObject \in Obj : \A offset \in OffsetsOf(o, 0) :
        ReachesPayload(o, offset, subObject) =>
        \A r \in {ShaderObject_setObject(o, offset, subObject, World(m_objects, 0))} :
           IF LayoutOf(subObject).stride
                <= LayoutOf(o).bindingRanges[offset.bindingRangeIndex + 1].payloadSize
           THEN /\ r.res = SLANG_OK
                /\ \A k \in 1..Len(m_ordinaryData[subObject]) :
                      r.data[offset.uniformOffset + ExistentialHeaderSize + k]
                        = m_ordinaryData[subObject][k]
           ELSE r.res = SLANG_E_NOT_IMPLEMENTED

\* a value that fits was copied into the payload, and then a value that does
\* not fit was refused
C26_Witness ==
    /\ lastCall.op = "setObject"
    /\ lastCall.obj = 1
    /\ lastCall.res = SLANG_E_NOT_IMPLEMENTED
    /\ m_ordinaryData[1][ExistentialHeaderSize + 1] = 8
    /\ m_ordinaryData[1][ExistentialHeaderSize + 2] = 9


\* the sub-objects bound in the slots of sub-object range r of object o
BoundInRange(o, r) ==
    {m_objects[o][SubObjectRange(o, r).subObjectIndex + k + 1] :
        k \in 0..(SubObjectRange(o, r).count - 1)} \ {NULL}

\* no slot of sub-object range r of object o has user-provided arguments
Underived(o, r) ==
    \A k \in 0..(SubObjectRange(o, r).count - 1) :
       \/ SubObjectRange(o, r).subObjectIndex + k
            >= Len(m_userProvidedSpecializationArgs[o])
       \/ ~m_userProvidedSpecializationArgs[o][
              SubObjectRange(o, r).subObjectIndex + k + 1].present

Accepts(o, subObject) ==
    /\ subObject # o
    /\ \/ m_state[o] = "Initial"
       \/ m_state[o] = "Initialized" /\ m_state[subObject] = "Finalized"

\* the nested calls of setObject whose Result is looked at: the specialized
\* type of an element of an interface-typed container fails, or the header of
\* an interface-typed field cannot be written for the value's type
CheckedCallFails(o, offset, subObject) ==
    \/ /\ LayoutOf(o).containerType # "None"
       /\ LayoutOf(o).kind = "Interface"
       /\ getSpecializedShaderObjectType(subObject, World(m_objects, 0), {}).res
            # SLANG_OK
    \/ /\ LayoutOf(o).containerType = "None"
       /\ offset.bindingRangeIndex \in 0..(Len(LayoutOf(o).bindingRanges) - 1)
       /\ LayoutOf(o).bindingRanges[offset.bindingRangeIndex + 1].bindingType
            = "ExistentialValue"
       /\ LayoutOf(subObject).typeName \notin ConformingTypes

\* the element's collectSpecializationArgs, called for an element of a
\* container of concrete elements, fails
ElementCollectFails(o, subObject) ==
    /\ LayoutOf(o).containerType # "None"
    /\ LayoutOf(o).kind # "Interface"
    /\ CollectSpecializationArgs(subObject, <<>>, World(m_objects, 0), {}).res
         # SLANG_OK

\* C27 (as stated): whenever a fallible nested call made by setObject fails
\* (the element's collectSpecializationArgs or getSpecializedShaderObjectType,
\* or setExistentialHeader), setObject returns a failure result.
C27_NestedFailureFailsSetObject ==
    \A o \in Obj : \A subObject \in Obj : \A offset \in OffsetsOf(o, 0) :
       (/\ Accepts(o, subObject)
        /\ \/ CheckedCallFails(o, offset, subObject)
           \/ ElementCollectFails(o, subObject))
       => ShaderObject_setObject(o, offset, subObject, World(m_objects, 0)).res
            # SLANG_OK

\* C27 (the part that holds): when the element's
\* getSpecializedShaderObjectType or setExistentialHeader fails, setObject
\* returns that failure and has merged nothing into the element signature;
\* and collectSpecializationArgs returns the failure of the first
\* failing getSpecializedShaderObjectType of a bound sub-object.
C27_CheckedCallsPropagate ==
    /\ \A o \in Obj : \A subObject \in Obj : \A offset \in OffsetsOf(o, 0) :
          (Accepts(o, subObject) /\ CheckedCallFails(o, offset, subObject))
          => \E r \in {ShaderObject_setObject(o, offset, subObject,
                                              World(m_objects, 0))} :
                /\ r.res = SLANG_FAIL
                /\ r.sbArgs = m_structuredBufferSpecializationArgs[o]
                /\ ~r.incoming.present
    /\ \A o \in Obj :
          (/\ LayoutOf(o).containerType = "None"
           /\ \E i \in DOMAIN m_objects[o] : m_objects[o][i] \in failingTypes)
          => CollectSpecializationArgs(o, <<>>, World(m_objects, 0), {}).res
               = SLANG_FAIL

\* setObject of an element whose specialized type is not available into the
\* container of interface-typed elements returned a failure
C27_Witness ==
    /\ lastCall.op = "setObject"
    /\ lastCall.obj = 2
    /\ lastCall.arg \in failingTypes
    /\ lastCall.res = SLANG_FAIL
    /\ m_state[2] = "Initial"


(***************************************************************************)
(* C29: _unwrapParameterGroups ends and classifies.                        *)
(***************************************************************************)

RECURSIVE Depth(_)
\* how deep layout t is nested
Depth(t) == IF t.element = <<>> THEN 0 ELSE 1 + Depth(t.element[1])

RECURSIVE Classified(_)
\* the container type and the layout that the classification gives for t:
\* wrappers skipped, the first array or structured buffer named with its
\* element layout, anything else None and itself
Classified(t) ==
    LET s == TypelessElement(t)
    IN  IF s.kind = "Array"
        THEN [containerType |-> "Array", typeLayout |-> s.element[1]]
        ELSE IF s.kind = "Resource" /\ s.shape = "StructuredBuffer"
        THEN [containerType |-> "StructuredBuffer", typeLayout |-> s.element[1]]
        ELSE IF s.kind \in {"ConstantBuffer", "ParameterBlock"}
        THEN Classified(s.element[1])
        ELSE [containerType |-> "None", typeLayout |-> s]

RECURSIVE ReachesOtherResource(_)
\* under the wrappers of t lies a resource that is not a structured buffer
ReachesOtherResource(t) ==
    LET s == TypelessElement(t)
    IN  IF s.kind = "Resource" /\ s.shape # "StructuredBuffer" THEN TRUE
        ELSE IF s.kind \in {"ConstantBuffer", "ParameterBlock"}
        THEN ReachesOtherResource(s.element[1])
        ELSE FALSE

\* the call has returned what the classification gives for its argument
ReturnsClassified ==
    unwrap.pc = "done" =>
        [containerType |-> unwrap.outContainerType,
         typeLayout |-> unwrap.typeLayout[1]] = Classified(unwrap.input[1])

\* C29 (as stated): on every type layout _unwrapParameterGroups ends, every
\* pass that does not return stepping one level into the nesting, so that a
\* call still in its loop has made no more passes than its argument is deep;
\* it returns the classification of its argument, a resource that is not a
\* structured buffer being returned itself with None; and the condition of
\* neither assertion is ever false.
C29_UnwrapEndsAndClassifies ==
    unwrap.pc # "idle" =>
        /\ unwrap.pc = "loop" => unwrap.passes <= Depth(unwrap.input[1])
        /\ ReturnsClassified
        /\ ~unwrap.assertFailed

\* C29 (what holds): on a type layout whose wrappers do not lead to a
\* resource that is not a structured buffer the call ends within one pass
\* per level of nesting and returns the classification of its argument; on a
\* layout whose wrappers lead to such a resource the call never returns; and
\* the condition of neither assertion is ever false.
C29_UnwrapClassifiesUnlessOtherResource ==
    unwrap.pc # "idle" =>
        /\ ~ReachesOtherResource(unwrap.input[1]) =>
              /\ unwrap.pc = "loop" => unwrap.passes <= Depth(unwrap.input[1])
              /\ ReturnsClassified
        /\ ReachesOtherResource(unwrap.input[1]) => unwrap.pc = "loop"
        /\ ~unwrap.assertFailed

\* a structured buffer inside a wrapper has been classified on the second pass
C29_Witness ==
    /\ unwrap.pc = "done"
    /\ unwrap.passes = 2
    /\ unwrap.outContainerType = "StructuredBuffer"
    /\ unwrap.input[1].kind \in {"ConstantBuffer", "ParameterBlock"}


(***************************************************************************)
(* C30: a container grows to the element index it is set at.               *)
(***************************************************************************)

\* the bytes of element index of a container with this element stride
ElementBytes(stride, index) == (stride * index + 1)..(stride * (index + 1))

\* what setObject(offset, subObject) leaves of container o when it gets past
\* the state switch and returns: at an index not below the element count the
\* lists have grown to the index, what was there is kept, and every new slot
\* and byte outside the element set is empty; at an index below the count
\* both lengths are kept
GrowsToIndex(o, offset, subObject) ==
    \A r \in {ShaderObject_setObject(o, offset, subObject, World(m_objects, 0))} :
        Accepts(o, subObject) /\ ~Stops(r.res) =>
           IF offset.bindingArrayIndex >= Len(m_objects[o])
           THEN /\ Len(r.objects) = offset.bindingArrayIndex + 1
                /\ Len(r.data) = LayoutOf(o).stride * (offset.bindingArrayIndex + 1)
                /\ \A k \in 1..Len(m_objects[o]) : r.objects[k] = m_objects[o][k]
                /\ \A k \in (Len(m_objects[o]) + 1)..offset.bindingArrayIndex :
                      r.objects[k] = NULL
                /\ \A b \in (1..Len(r.data))
                              \ ElementBytes(LayoutOf(o).stride, offset.bindingArrayIndex) :
                      r.data[b] = (IF b <= Len(m_ordinaryData[o])
                                   THEN m_ordinaryData[o][b] ELSE 0)
           ELSE /\ Len(r.objects) = Len(m_objects[o])
                /\ Len(r.data) = Len(m_ordinaryData[o])

\* no step makes a list of a container shorter
NeverShrinks ==
    \A o \in Containers :
        /\ Len(m_objects'[o]) >= Len(m_objects[o])
        /\ Len(m_ordinaryData'[o]) >= Len(m_ordinaryData[o])

\* C30: setObject on a container at an element index not less than the
\* element count grows the sub-object list to index + 1 and the data buffer
\* to elementStride * (index + 1), the existing sub-objects and bytes kept and
\* the new bytes zero (but for the element that is set); at an index below
\* the count it changes neither length; and no call makes a list shorter.
C30_ContainerGrowsToIndex ==
    /\ [](\A o \in Containers : \A subObject \in Obj \ Containers :
             \A offset \in OffsetsOf(o, MaxIndex) :
                GrowsToIndex(o, offset, subObject))
    /\ [][NeverShrinks]_vars

\* a container was set three times and has grown to three elements, none of
\* them empty, and holds bytes that are not zero
C30_Witness ==
    /\ lastCall.op = "setObject"
    /\ lastCall.res = SLANG_OK
    /\ \E o \in Containers :
          /\ lastCall.obj = o
          /\ Len(m_objects[o]) = 3
          /\ Len(m_ordinaryData[o]) = 3 * LayoutOf(o).stride
          /\ \A k \in 1..3 : m_objects[o][k] # NULL
          /\ Len(merged[o]) = 3
          /\ \E b \in DOMAIN m_ordinaryData[o] : m_ordinaryData[o][b] # 0


(***************************************************************************)
(* C31: what a failed setObject leaves behind.                             *)
(***************************************************************************)

\* setObject(offset, subObject) on o is turned away before it touches o: by
\* the state of o, or by a binding-range index outside the ranges of a
\* non-container
TurnedAway(o, offset, subObject) ==
    \/ m_state[o] = "Finalized"
    \/ m_state[o] = "Initialized" /\ m_state[subObject] # "Finalized"
    \/ /\ LayoutOf(o).containerType = "None"
       /\ offset.bindingRangeIndex \notin 0..(Len(LayoutOf(o).bindingRanges) - 1)

\* outcome r of a call on o has left the fields of o and the tables as they were
LeavesUnchanged(o, r) ==
    /\ r.objects = m_objects[o]
    /\ r.data = m_ordinaryData[o]
    /\ r.sbArgs = m_structuredBufferSpecializationArgs[o]
    /\ r.bindings = m_bindings[o]
    /\ r.W.ids = componentIds
    /\ r.W.sot = shaderObjectType
    /\ ~r.incoming.present

\* outcome r holds the sub-object in its slot and the header of its type at
\* the offset
StoredWithHeader(o, offset, subObject, r) ==
    /\ r.objects[LayoutOf(o).bindingRanges[offset.bindingRangeIndex + 1].subObjectIndex
                   + offset.bindingArrayIndex + 1] = subObject
    /\ r.data[offset.uniformOffset + 1] = RttiId(LayoutOf(subObject).typeName)
    /\ r.data[offset.uniformOffset + WitnessTableOffset + 1]
         = WitnessId(LayoutOf(subObject).typeName)

\* a step that is a setObject returning not-implemented has left the value in
\* the slot of the parent
NotImplementedStores ==
    lastCall'.op = "setObject" /\ lastCall'.res = SLANG_E_NOT_IMPLEMENTED =>
        \E i \in DOMAIN m_objects'[lastCall'.obj] :
            m_objects'[lastCall'.obj][i] = lastCall'.arg

\* C31: a setObject that returns not-implemented because the value does not
\* fit the existential payload has stored the sub-object at its sub-object
\* index and written the existential header; a setObject turned away by the
\* parent's state or by a binding-range index outside the layout returns a
\* failure and has changed nothing.
C31_FailedSetObjectMayMutate ==
    /\ [](\A o \in Obj : \A subObject \in Obj \ {o} : \A offset \in OffsetsOf(o, 0) :
            \A r \in {ShaderObject_setObject(o, offset, subObject,
                                             World(m_objects, 0))} :
               /\ r.res = SLANG_E_NOT_IMPLEMENTED =>
                     StoredWithHeader(o, offset, subObject, r)
               /\ TurnedAway(o, offset, subObject) =>
                     /\ r.res \in {SLANG_FAIL, SLANG_E_INVALID_ARG}
                     /\ LeavesUnchanged(o, r))
    /\ [][NotImplementedStores]_vars

\* a value that does not fit was refused, and it is in the slot of the parent
\* with its header
C31_Witness ==
    /\ lastCall.op = "setObject"
    /\ lastCall.res = SLANG_E_NOT_IMPLEMENTED
    /\ lastCall.obj = 1
    /\ LayoutOf(lastCall.arg).typeName = "Big"
    /\ m_objects[1][1] = lastCall.arg
    /\ m_ordinaryData[1][1] = RttiId("Big")
    /\ m_ordinaryData[1][WitnessTableOffset + 1] = WitnessId("Big")


(***************************************************************************)
(* C32: the assertion at the start of finalize().                          *)
(***************************************************************************)

\* C32 (as stated): no finalize() call, on whatever object an operation
\* reaches it, finds the condition of its assertion (state = Initialized)
\* false, so that none ends in the assertion.
C32_FinalizeAssertionHolds ==
    lastCall.op = "finalize" => lastCall.res # ABORTED

\* C32 (what holds): finalize() on an object in state Initialized all of whose
\* sub-objects, at any depth, are Initialized or Finalized does not end in
\* the assertion; where assertions are compiled in, finalize() on an object
\* in state Initial does, and so does finalize() on an Initialized object
\* with a sub-object still in state Initial.
C32_AssertionHoldsWhenAllInitialized ==
    \A o \in Obj :
       \A r \in {ShaderObject_finalize(o, m_state, m_objects, {})} :
          /\ (/\ m_state[o] = "Initialized"
              /\ \A s \in SubObjectTree({o}, Cardinality(Obj)) : m_state[s] # "Initial")
                => r.res # ABORTED
          /\ assertsEnabled /\ m_state[o] = "Initial" => r.res = ABORTED
          /\ (/\ assertsEnabled
              /\ m_state[o] = "Initialized"
              /\ \E i \in DOMAIN m_objects[o] :
                    m_objects[o][i] # NULL /\ m_state[m_objects[o][i]] = "Initial")
                => r.res = ABORTED

\* with assertions compiled in, one finalize() call has finalized an
\* Initialized object and the Initialized sub-object attached to it
C32_Witness ==
    /\ assertsEnabled
    /\ lastCall.op = "finalize"
    /\ lastCall.res = SLANG_OK
    /\ lastCall.arg = 2
    /\ \E i \in DOMAIN m_objects[lastCall.obj] : m_objects[lastCall.obj][i] # NULL


(***************************************************************************)
(* C33: finalize() and collectSpecializationArgs() come to an end.         *)
(***************************************************************************)

\* the objects below object x in the sub-object graph
Descendants(x) ==
    SubObjectTree({m_objects[x][i] : i \in DOMAIN m_objects[x]} \ {NULL},
                  Cardinality(Obj))

\* no object at or below o is below itself
Acyclic(o) == \A x \in SubObjectTree({o}, Cardinality(Obj)) : x \notin Descendants(x)

\* C33 (as stated): on every sub-object graph that setObject builds, with
\* objects that are their own sub-objects and with shared sub-objects, no
\* finalize() and no collectSpecializationArgs() (run by setObject on a
\* container of concrete elements) descends without end.
C33_FinalizeAndCollectTerminate ==
    lastCall.op \in {"finalize", "setObject"} => lastCall.res # STACK_OVERFLOW

\* C33 (what holds): on an object below which no object is its own
\* sub-object, directly or through others, finalize() and
\* collectSpecializationArgs() come to an end, a sub-object shared by several
\* parents included; and a call that descends without end is one on a graph
\* with such an object.
C33_TerminateOnAcyclicGraphs ==
    /\ \A o \in Obj :
          Acyclic(o) =>
             /\ ShaderObject_finalize(o, m_state, m_objects, {}).res # STACK_OVERFLOW
             /\ CollectSpecializationArgs(o, <<>>, World(m_objects, 0), {}).res
                  # STACK_OVERFLOW
    /\ lastCall.res = STACK_OVERFLOW =>
          \E x \in Obj : x \in Descendants(x)

\* one finalize() has finalized an object and the sub-object it shares with
\* the container
C33_Witness ==
    /\ lastCall.op = "finalize"
    /\ lastCall.res = SLANG_OK
    /\ lastCall.obj = 2
    /\ lastCall.arg = 2
    /\ m_objects[2][1] = 3
    /\ Len(m_objects[1]) > 0
    /\ m_objects[1][1] = 3


(***************************************************************************)
(* C34: the lengths of the lists that the element merge compares.          *)
(***************************************************************************)

\* list k merged into container o met a stored signature that was not empty
MetStored(o, k) == \E j \in 1..(k - 1) : merged[o][j].list # <<>>

\* C34 (as stated): every list that setObject or setSpecializationArgs merged
\* into a container whose stored element signature was not empty had the
\* length of that signature (which a merge never changes), and no such call
\* ended in the assertion of the merge.
C34_MergedListsHaveStoredLength ==
    /\ \A o \in Containers : \A k \in 1..Len(merged[o]) :
          MetStored(o, k) => Len(merged[o][k].list) = Len(Signature(o))
    /\ (lastCall.op \in {"setObject", "setSpecializationArgs"}
          /\ lastCall.obj \in Containers) => lastCall.res # ABORTED

\* C34 (what holds): a list of the length of the stored signature is merged
\* without the assertion failing and leaves the signature at that length; a
\* list of another length, met by a signature that is not empty, fails the
\* assertion where assertions are compiled in.
C34_AssertionHoldsOnEqualLengths ==
    \A o \in Containers : \A list \in {merged[o][k].list : k \in 1..Len(merged[o])} :
       \A r \in {setSpecializationArgsForContainerElement(
                     Signature(o), list, World(m_objects, 0))} :
          /\ Len(list) = Len(Signature(o)) =>
                r.res = SLANG_OK /\ Len(r.list) = Len(Signature(o)) /\ ~r.W.ub
          /\ (assertsEnabled /\ Signature(o) # <<>> /\ Len(list) # Len(Signature(o)))
                => r.res = ABORTED

\* two elements that contributed one argument each were merged
C34_Witness ==
    /\ lastCall.op = "setObject"
    /\ lastCall.obj = 1
    /\ lastCall.res = SLANG_OK
    /\ Len(merged[1]) = 2
    /\ OnlyElements(1)
    /\ Len(merged[1][1].list) = 1
    /\ Len(merged[1][2].list) = 1
    /\ Len(Signature(1)) = 1


(***************************************************************************)
(* C35: the counts that the range merge of collectSpecializationArgs       *)
(* compares.                                                               *)
(***************************************************************************)

\* the objects with one sub-object range of two interface-typed slots
PairObjects ==
    {o \in Obj : /\ LayoutOf(o).containerType = "None"
                 /\ Len(LayoutOf(o).subObjectRanges) = 1
                 /\ SubObjectRange(o, 0).count = 2
                 /\ SubObjectRange(o, 0).bindingType = "ExistentialValue"}

\* slot k of the range of o is bound and has user-provided arguments
Overrides(o, k) ==
    /\ m_objects[o][k + 1] # NULL
    /\ k < Len(m_userProvidedSpecializationArgs[o])
    /\ m_userProvidedSpecializationArgs[o][k + 1].present

\* C35 (as stated): collectSpecializationArgs never finds the number of
\* arguments the range has appended different from the number a later element
\* contributes, with or without user-provided arguments on some elements: no
\* call of it, on any object or from setObject on a container that has no
\* signature yet, ends in the assertion of the range merge.
C35_RangeCountsAgree ==
    /\ \A o \in PairObjects :
          CollectSpecializationArgs(o, <<>>, World(m_objects, 0), {}).res # ABORTED
    /\ (lastCall.op = "setObject" /\ lastCall.obj \in Containers
          /\ merged[lastCall.obj] = <<>>) => lastCall.res # ABORTED

\* C35 (what holds): in a range of interface-typed slots without
\* user-provided arguments every element contributes one argument and the
\* assertion holds; it fails, where assertions are compiled in, exactly when
\* the first slot carries user-provided arguments of a number other than one
\* and the second slot contributes its derived type.
C35_RangeCountsAgreeWithoutOverrides ==
    \A o \in PairObjects :
       \A c \in {CollectSpecializationArgs(o, <<>>, World(m_objects, 0), {})} :
          /\ Underived(o, 0) => c.res = SLANG_OK
          /\ c.res = ABORTED <=>
                /\ assertsEnabled
                /\ Overrides(o, 0)
                /\ Len(m_userProvidedSpecializationArgs[o][1].list) \notin {0, 1}
                /\ m_objects[o][2] # NULL
                /\ ~Overrides(o, 1)

\* with assertions compiled in, an object whose first slot carries one
\* user-provided argument and whose second slot contributes its derived type
\* was set into the container, and its arguments were collected
C35_Witness ==
    /\ assertsEnabled
    /\ lastCall.op = "setObject"
    /\ lastCall.obj = 1
    /\ lastCall.res = SLANG_OK
    /\ Overrides(2, 0)
    /\ Len(m_userProvidedSpecializationArgs[2][1].list) = 1
    /\ m_objects[2][2] # NULL
    /\ ~Overrides(2, 1)
    /\ Len(Signature(1)) = 1


(***************************************************************************)
(* C36: the element signature of a container and the elements it holds.    *)
(***************************************************************************)

\* the containers of interface-typed elements into which only elements were
\* bound
ElementContainers ==
    {o \in Containers : LayoutOf(o).kind = "Interface" /\ OnlyElements(o)}

\* the elements container o holds
Held(o) == {i \in DOMAIN m_objects[o] : m_objects[o][i] # NULL}

RECURSIVE FreshSignature(_, _, _, _)
\* the signature of a fresh container after the elements that o holds from
\* slot i on were bound into it one by one, `stored` being its signature so far
FreshSignature(o, i, stored, W) ==
    IF i > Len(m_objects[o]) THEN stored
    ELSE IF m_objects[o][i] = NULL THEN FreshSignature(o, i + 1, stored, W)
    ELSE The({FreshSignature(o, i + 1, m.list, m.W) :
                 m \in {setSpecializationArgsForContainerElement(stored,
                           <<getSpecializedShaderObjectType(m_objects[o][i], W, {}).type>>,
                           W)}})

\* C36 (as stated): the element signature of a container is the signature a
\* fresh container gets when only the elements now held are bound into it; in
\* particular, when all elements now held have one type, also after an element
\* was replaced at its index, the signature holds that type.
C36_SignatureOfHeldElements ==
    \A o \in ElementContainers :
        /\ Signature(o) = FreshSignature(o, 1, <<>>, World(m_objects, 0))
        /\ \A t \in ConformingTypes :
              (/\ Held(o) # {}
               /\ \A i \in Held(o) : LayoutOf(m_objects[o][i]).typeName = t)
                 => Signature(o) = <<ExtendedType(PlainType(t), Signature(o)[1].componentID)>>
                    /\ ~IsDynamic(Signature(o)[1])

\* C36 (what holds): as long as every setObject on the container bound a
\* slot that was empty, its element signature is the signature a fresh
\* container gets from the elements now held.
C36_SignatureOfHeldElementsUntilRebound ==
    \A o \in ElementContainers :
        Len(merged[o]) = Cardinality(Held(o))
           => Signature(o) = FreshSignature(o, 1, <<>>, World(m_objects, 0))

\* two elements of different types are held in two slots, each bound once,
\* and the signature is the dynamic sentinel
C36_Witness ==
    \E o \in ElementContainers :
        /\ Len(merged[o]) = 2
        /\ Cardinality(Held(o)) = 2
        /\ LayoutOf(m_objects[o][1]).typeName # LayoutOf(m_objects[o][2]).typeName
        /\ IsDynamic(Signature(o)[1])
        /\ lastCall.op = "setObject"


(***************************************************************************)
(* C37: collectSpecializationArgs only appends.                            *)
(***************************************************************************)

\* the argument lists a caller hands to collectSpecializationArgs
CallerArgs ==
    {<<>>,
     <<ExtendedType(PlainType("B"), 5)>>,
     <<ExtendedType(PlainType("A"), 5), ExtendedType(DynamicType, 6)>>}

\* list `after` begins with list `before`, entry by entry
BeginsWith(after, before) ==
    /\ Len(after) >= Len(before)
    /\ \A i \in 1..Len(before) : after[i] = before[i]

\* C37: whatever list collectSpecializationArgs is handed, the list after the
\* call begins with it, every entry with the type and component id it had;
\* and the same holds for the pass over each single sub-object range, so that
\* the entries it turns into the dynamic sentinel are entries appended for
\* that range.
C37_CollectOnlyAppends ==
    \A o \in Obj : \A args \in CallerArgs :
        /\ BeginsWith(CollectSpecializationArgs(o, args, World(m_objects, 0), {}).args,
                      args)
        /\ \A r \in 0..(Len(LayoutOf(o).subObjectRanges) - 1) :
              BeginsWith(CollectElements(o, SubObjectRange(o, r), 0, args, Len(args),
                                         World(m_objects, 0), {o}).args,
                         args)

\* an object whose two slots hold values of different types, without
\* user-provided arguments, was set into the container: its range was merged
\* into one dynamic argument, behind whatever the caller's list held
C37_Witness ==
    /\ lastCall.op = "setObject"
    /\ lastCall.obj = 1
    /\ lastCall.res = SLANG_OK
    /\ Underived(2, 0)
    /\ m_objects[2][1] # NULL
    /\ m_objects[2][2] # NULL
    /\ m_objects[2][1] # m_objects[2][2]
    /\ \E c \in {CollectSpecializationArgs(2,
                    <<ExtendedType(PlainType("B"), 5)>>, World(m_objects, 0), {})} :
          /\ Len(c.args) = 2
          /\ c.args[2].slangType = DynamicType


(***************************************************************************)
(* C38: map() and unmap() of a buffer.                                     *)
(***************************************************************************)

\* what each single call does: map() on a buffer flagged as mapped fails and
\* leaves it so, unmap() on a buffer not flagged as mapped fails and leaves it
\* so, a successful unmap() leaves the buffer unmapped, and a successful
\* map() returns with the buffer mapped
MapUnmapCallByCall ==
    /\ (lastCall.op = "map" /\ lastCall.arg) =>
          lastCall.res = SLANG_FAIL /\ buffer.m_isMapped
    /\ (lastCall.op = "unmap" /\ ~lastCall.arg) =>
          lastCall.res = SLANG_FAIL /\ ~buffer.m_isMapped
    /\ (lastCall.op = "unmap" /\ lastCall.res = SLANG_OK) =>
          ~buffer.m_isMapped /\ ~buffer.nativeMapped
    /\ (lastCall.op = "map" /\ lastCall.res = SLANG_OK) =>
          buffer.m_isMapped /\ buffer.nativeMapped

\* C38 (as stated): the successful map() and unmap() calls on a buffer
\* alternate strictly, beginning with a map(): at any time the successful
\* map() calls are as many as the successful unmap() calls or one more; and
\* every single call behaves as described.
C38_SuccessfulMapUnmapAlternate ==
    /\ buffer.maps - buffer.unmaps \in {0, 1}
    /\ MapUnmapCallByCall

\* C38 (what holds): every single call behaves as described: map() fails on
\* a buffer flagged as mapped and leaves it mapped, unmap() fails on a
\* buffer not flagged as mapped and leaves it unmapped, a successful unmap()
\* leaves it unmapped, and map() returns success only with the buffer mapped.
C38_EachCallKeepsTheFlag == MapUnmapCallByCall

\* a map() has succeeded on a buffer that was mapped and unmapped before
C38_Witness ==
    /\ lastCall.op = "map"
    /\ lastCall.res = SLANG_OK
    /\ buffer.maps = 2
    /\ buffer.unmaps = 1
    /\ buffer.m_isMapped

(***************************************************************************)
(* C39: m_isMapped and the callbacks that arrive after map() has returned. *)
(***************************************************************************)

\* C39 (as stated): m_isMapped is set only between a map() that returned
\* success and the next successful unmap(), whenever the callbacks arrive; so
\* a map() is turned away as already mapped only after a successful map()
\* that no unmap() has followed.
C39_MappedOnlyAfterSuccessfulMap ==
    /\ buffer.m_isMapped => buffer.maps = buffer.unmaps + 1
    /\ (lastCall.op = "map" /\ lastCall.arg) => buffer.maps = buffer.unmaps + 1

\* C39 (what holds): m_isMapped is what the callback that ran last made it,
\* unless a successful unmap() followed: it is set only while the native
\* buffer is mapped, and a callback that arrives with success after map() has
\* returned failure sets it.
C39_FlagFollowsLastCallback ==
    /\ buffer.m_isMapped => buffer.nativeMapped
    /\ lastCall.op = "mapCallback" => buffer.m_isMapped = (lastCall.arg = "Success")

\* a callback has arrived with success after the only map() had returned
\* failure
C39_Witness ==
    /\ lastCall.op = "mapCallback"
    /\ lastCall.arg = "Success"
    /\ buffer.m_isMapped
    /\ buffer.maps = 0
    /\ buffer.unmaps = 0


(***************************************************************************)
(* C40                                                                     *)
(***************************************************************************)
\* how often a call shows in a sequence of native calls, and where it shows
\* when it shows once
Count(log, e) == Cardinality({i \in 1..Len(log) : log[i] = e})

At(log, e) == The({i \in 1..Len(log) : log[i] = e})

\* a native object the call created is released once, after its creation and
\* after every other call made on it; one it did not create is not released
ReleasedOnce(log, obj) ==
    /\ Count(log, CreateCall(obj)) <= 1
    /\ Count(log, ReleaseCall(obj)) = Count(log, CreateCall(obj))
    /\ Count(log, CreateCall(obj)) = 1 =>
          /\ At(log, CreateCall(obj)) < At(log, ReleaseCall(obj))
          /\ \A i \in 1..Len(log) :
                log[i][2] = obj => i <= At(log, ReleaseCall(obj))

\* the staging buffer was mapped: the map callback brought success
StagingMapped(log) == Count(log, Ev("mapCallback", "Success")) > 0

\* a staging buffer that was mapped is unmapped once, after it was mapped and
\* before it is released
UnmappedOnce(log) ==
    StagingMapped(log) =>
        /\ Count(log, UnmapCall) = 1
        /\ At(log, Ev("mapCallback", "Success")) < At(log, UnmapCall)
        /\ At(log, UnmapCall) < At(log, ReleaseCall("staging"))

\* C40: when readBuffer or createBuffer has returned, with success or with
\* failure, the staging buffer, the command encoder and the command buffer
\* the call created have each been released exactly once, a staging buffer
\* that was mapped has been unmapped exactly once and before its release, and
\* after a failure of createBuffer the destination buffer, if it was created,
\* has been released exactly once as well.
C40_NativeObjectsReleasedOnce ==
    transfer.fn \in {"readBuffer", "createBuffer"} =>
        /\ \A obj \in {"staging", "encoder", "commandBuffer"} :
              ReleasedOnce(transfer.log, obj)
        /\ UnmappedOnce(transfer.log)
        /\ (transfer.fn = "createBuffer" /\ transfer.res # SLANG_OK) =>
              ReleasedOnce(transfer.log, "dest")

\* createBuffer with initial data has failed after it had created the
\* destination buffer, mapped the staging buffer and created the encoder
C40_Witness ==
    /\ transfer.fn = "createBuffer"
    /\ transfer.res = SLANG_FAIL
    /\ StagingMapped(transfer.log)
    /\ Count(transfer.log, CreateCall("dest")) = 1
    /\ Count(transfer.log, CreateCall("encoder")) = 1

\* readBuffer has returned the data: all three objects were created and the
\* staging buffer was mapped
C40_ReadBufferSucceeded ==
    /\ transfer.fn = "readBuffer"
    /\ transfer.res = SLANG_OK
    /\ StagingMapped(transfer.log)

=============================================================================
